---------------------------- MODULE Spec2Model ----------------------------
(* A model of the ray tracer (rpinder/raytracer): the linear-algebra value  *)
(* types, ray/sphere intersection, hit selection, the world's ray casting,  *)
(* shadow test and shading, and the camera's render loop.                   *)
(*                                                                          *)
(* f32 values are modelled in fixed point: the integer n stands for the     *)
(* real n / Scale.  Products and quotients are rounded to the nearest unit, *)
(* as f32 arithmetic rounds to the nearest representable value.             *)
EXTENDS Integers, Sequences, FiniteSets, TLC

VARIABLES
    world,      \* the World handed to the operation (objects, light)
    camera,     \* the Camera
    image,      \* the Canvas render is filling
    written,    \* how many times write_pixel was called per coordinate
    pc,         \* position of the render loop
    px, py,     \* loop counters x and y of render
    ray,        \* operand: a Ray
    point,      \* operand: a Point
    vector,     \* operand: a Vector
    scalar,     \* operand: an f32
    inters,     \* operand: a Vec<Intersection>
    lamp,       \* operand: a PointLight
    surface,    \* operand: a Material
    surface_copy, \* operand: a clone of surface taken before the operation
    surface_normal, \* operand: a surface normal
    matrices,   \* operand: the matrices A, B, C
    op,         \* name of the last operation applied
    result      \* what it returned

vars == <<world, camera, image, written, pc, px, py,
          ray, point, vector, scalar, inters,
          lamp, surface, surface_copy, surface_normal, matrices, op, result>>

---------------------------------------------------------------------------
(* Fixed-point arithmetic standing for f32.                                *)

Scale == 10 * 10 * 10

FP(n) == n * Scale

Abs(a) == IF a < 0 THEN -a ELSE a

Sgn(a) == IF a < 0 THEN -1 ELSE 1

\* integer quotient rounded to the nearest integer (b # 0)
RoundDiv(a, b) ==
    LET q == Abs(a) \div Abs(b)
        r == Abs(a) % Abs(b)
    IN  Sgn(a) * Sgn(b) * (IF 2 * r >= Abs(b) THEN q + 1 ELSE q)

\* a * b on f32: |a| * |b| / Scale rounded to the nearest unit, with |b| split
\* into its whole and fractional parts so that no intermediate product
\* exceeds the checker's integers
fmul(a, b) ==
    LET m == Abs(a)
        q == Abs(b) \div Scale
        r == Abs(b) % Scale
    IN  Sgn(a) * Sgn(b) * (m * q + RoundDiv(m * r, Scale))

\* a / b on f32
fdiv(a, b) == RoundDiv(a * Scale, b)

RECURSIVE ISqrtBetween(_, _, _)
ISqrtBetween(n, lo, hi) ==
    IF lo >= hi THEN lo
    ELSE LET mid == (lo + hi + 1) \div 2
         IN  IF mid * mid <= n THEN ISqrtBetween(n, mid, hi)
                               ELSE ISqrtBetween(n, lo, mid - 1)

\* f32::sqrt of a non-negative value; 46340 is the largest root whose square
\* the checker's integers hold
fsqrt(a) == ISqrtBetween(a * Scale, 0, 46340)

\* f32::powi(2)
powi2(a) == fmul(a, a)

RECURSIVE powf(_, _)
\* f32::powf for an exponent that is a whole number (n is the plain integer)
powf(a, n) ==
    IF n = 0 THEN Scale
    ELSE IF n % 2 = 0 THEN LET h == powf(a, n \div 2) IN fmul(h, h)
    ELSE fmul(a, powf(a, n - 1))

\* the epsilon of utils::fp_equal is 0.00001 = 1 / EpsilonInv
EpsilonInv == 100000

\* utils::fp_equal: |a - b| < epsilon
fp_equal(a, b) ==
    LET d == Abs(a - b)
    IN  d = 0 \/ (d < Scale /\ d * EpsilonInv < Scale)

---------------------------------------------------------------------------
(* Vector, Point, Color.                                                   *)

Vector_new(x, y, z) == [x |-> x, y |-> y, z |-> z]

Point_new(x, y, z) == [x |-> x, y |-> y, z |-> z]

Color_new(r, g, b) == [red |-> r, green |-> g, blue |-> b]

magnitude(v) == fsqrt(powi2(v.x) + powi2(v.y) + powi2(v.z))

\* the Vector whose three components are NaN (0.0 / 0.0)
NaNVector == [nan |-> TRUE]

\* the division of normalize, given the magnitude
normalize_by(v, mag) ==
    IF mag = 0 THEN NaNVector
    ELSE Vector_new(fdiv(v.x, mag), fdiv(v.y, mag), fdiv(v.z, mag))

\* Vector::normalize
normalize(v) == normalize_by(v, magnitude(v))

dot(a, b) == fmul(a.x, b.x) + fmul(a.y, b.y) + fmul(a.z, b.z)

cross(a, b) ==
    Vector_new(fmul(a.y, b.z) - fmul(a.z, b.y),
               fmul(a.z, b.x) - fmul(a.x, b.z),
               fmul(a.x, b.y) - fmul(a.y, b.x))

vector_add(a, b) == Vector_new(a.x + b.x, a.y + b.y, a.z + b.z)

vector_sub(a, b) == Vector_new(a.x - b.x, a.y - b.y, a.z - b.z)

vector_neg(a) == Vector_new(-a.x, -a.y, -a.z)

vector_mul(a, s) == Vector_new(fmul(a.x, s), fmul(a.y, s), fmul(a.z, s))

\* Vector::reflect: self - other * 2.0 * self.dot(other)
reflect(a, n) == vector_sub(a, vector_mul(vector_mul(n, FP(2)), dot(a, n)))

vector_eq(a, b) == fp_equal(a.x, b.x) /\ fp_equal(a.y, b.y) /\ fp_equal(a.z, b.z)

point_eq(a, b) == fp_equal(a.x, b.x) /\ fp_equal(a.y, b.y) /\ fp_equal(a.z, b.z)

\* impl Sub for Point: Point - Point -> Vector
point_sub(a, b) == Vector_new(a.x - b.x, a.y - b.y, a.z - b.z)

\* impl Sub<Vector> for Point
point_sub_vector(p, v) == Point_new(p.x - v.x, p.y - v.y, p.z - v.z)

\* impl Add<Vector> for Point: the y and z components are subtracted
point_add_vector(p, v) == Point_new(p.x + v.x, p.y - v.y, p.z - v.z)

color_add(a, b) == Color_new(a.red + b.red, a.green + b.green, a.blue + b.blue)

color_scale(a, s) == Color_new(fmul(a.red, s), fmul(a.green, s), fmul(a.blue, s))

color_mul(a, b) ==
    Color_new(fmul(a.red, b.red), fmul(a.green, b.green), fmul(a.blue, b.blue))

color_eq(a, b) ==
    fp_equal(a.red, b.red) /\ fp_equal(a.green, b.green) /\ fp_equal(a.blue, b.blue)

Black == Color_new(0, 0, 0)

White == Color_new(FP(1), FP(1), FP(1))

---------------------------------------------------------------------------
(* Matrix: row and column counts and a flat row-major grid (Vec<f32>);     *)
(* grid[k + 1] here is grid[k] of the source.                              *)

\* what an operation that panics returns
Panic == [panic |-> TRUE]

\* whether a call ended in a panic instead of a value
panicked(v) == ToString(v) = ToString(Panic)

\* Matrix::new: a zero-filled row x col matrix
Matrix_new(row, col) == [row |-> row, col |-> col, grid |-> [k \in 1..(row * col) |-> 0]]

RECURSIVE Flatten(_)
Flatten(rows) == IF rows = <<>> THEN <<>> ELSE Head(rows) \o Flatten(Tail(rows))

\* Matrix::new_filled
new_filled(arr) == [row |-> Len(arr), col |-> Len(arr[1]), grid |-> Flatten(arr)]

\* Matrix::get: the guards test row > self.row and col > self.col, then the
\* flat index row * col_count + col is read
get(m, row, col) ==
    IF row > m.row \/ col > m.col THEN Panic
    ELSE IF row * m.col + col + 1 > Len(m.grid) THEN Panic
    ELSE m.grid[row * m.col + col + 1]

\* Matrix::set
set(m, row, col, val) ==
    IF row > m.row \/ col > m.col THEN Panic
    ELSE IF row * m.col + col + 1 > Len(m.grid) THEN Panic
    ELSE [m EXCEPT !.grid[row * m.col + col + 1] = val]

\* Matrix::identity
identity ==
    new_filled(<< <<FP(1), 0, 0, 0>>, <<0, FP(1), 0, 0>>,
                  <<0, 0, FP(1), 0>>, <<0, 0, 0, FP(1)>> >>)

\* Matrix::transpose: a new 4x4 matrix with m[j][i] = self.get(i, j) for i, j
\* in 0..4, whatever the shape of self; a get that panics ends the call
transpose(m) ==
    IF \E i, j \in 0..3 : panicked(get(m, i, j)) THEN Panic
    ELSE [row |-> 4, col |-> 4,
          grid |-> [k \in 1..16 |-> get(m, (k - 1) % 4, (k - 1) \div 4)]]

RECURSIVE KeptCells(_, _, _, _)
\* the cells of the flat grid from index i on that submatrix keeps
KeptCells(m, drow, dcol, i) ==
    IF i >= Len(m.grid) THEN <<>>
    ELSE IF (i >= drow * m.col /\ i < (drow + 1) * m.col) \/ i % m.col = dcol
         THEN KeptCells(m, drow, dcol, i + 1)
         ELSE <<m.grid[i + 1]>> \o KeptCells(m, drow, dcol, i + 1)

\* Matrix::submatrix
submatrix(m, drow, dcol) ==
    LET kept == KeptCells(m, drow, dcol, 0)
    IN  [row |-> m.row - 1, col |-> m.col - 1,
         grid |-> [k \in 1..((m.row - 1) * (m.col - 1)) |->
                      IF k <= Len(kept) THEN kept[k] ELSE 0]]

RECURSIVE determinant(_)

\* Matrix::minor
minor(m, drow, dcol) == determinant(submatrix(m, drow, dcol))

\* Matrix::cofactor: the minor, which panics for a submatrix that is not
\* square, times 1.0 or -1.0
cofactor(m, drow, dcol) ==
    LET mn == minor(m, drow, dcol)
    IN  IF panicked(mn) THEN Panic
        ELSE IF (drow + dcol) % 2 = 0 THEN mn ELSE -mn

RECURSIVE DetSum(_, _)
\* the loop of determinant: det += get(0, i) * cofactor(0, i) for i in i..col-1
DetSum(m, i) ==
    IF i >= m.col THEN 0
    ELSE fmul(get(m, 0, i), cofactor(m, 0, i)) + DetSum(m, i + 1)

\* Matrix::determinant (asserts row == col)
determinant(m) ==
    IF m.row # m.col THEN Panic
    ELSE IF m.row = 2
         THEN fmul(get(m, 0, 0), get(m, 1, 1)) - fmul(get(m, 0, 1), get(m, 1, 0))
         ELSE DetSum(m, 0)

\* Matrix::invertible
invertible(m) == ~fp_equal(determinant(m), 0)

\* inverse without the index swap: m[row][col] = cofactor(row, col) / determinant
inverse_untransposed(m) ==
    IF ~invertible(m) THEN Panic
    ELSE LET det == determinant(m)
         IN  [row |-> m.row, col |-> m.col,
              grid |-> [k \in 1..(m.row * m.col) |->
                          fdiv(cofactor(m, (k - 1) \div m.col, (k - 1) % m.col), det)]]

\* inverse without its assert: a matrix comes back for a singular matrix
inverse_unasserted(m) ==
    IF ~invertible(m) THEN Matrix_new(m.row, m.col)
    ELSE LET det == determinant(m)
         IN  [row |-> m.row, col |-> m.col,
              grid |-> [k \in 1..(m.row * m.col) |->
                          fdiv(cofactor(m, (k - 1) % m.col, (k - 1) \div m.col), det)]]

\* Matrix::inverse: m[col][row] = cofactor(row, col) / determinant
inverse(m) ==
    IF ~invertible(m) THEN Panic
    ELSE LET det == determinant(m)
         IN  [row |-> m.row, col |-> m.col,
              grid |-> [k \in 1..(m.row * m.col) |->
                          fdiv(cofactor(m, (k - 1) % m.col, (k - 1) \div m.col), det)]]

\* Matrix::shearing
shearing(xy, xz, yx, yz, zx, zy) ==
    new_filled(<<<<FP(1), xy, xz, 0>>, <<yx, FP(1), yz, 0>>,
                 <<zx, zy, FP(1), 0>>, <<0, 0, 0, FP(1)>>>>)

\* Matrix::translation
translation(x, y, z) == set(set(set(identity, 0, 3, x), 1, 3, y), 2, 3, z)

\* Matrix::scaling
scaling(x, y, z) ==
    set(set(set(set(Matrix_new(4, 4), 0, 0, x), 1, 1, y), 2, 2, z), 3, 3, FP(1))

\* the product with its operands exchanged
matrix_mul_exchanged(a, b) ==
    [row |-> 4, col |-> 4,
     grid |-> [k \in 1..16 |->
                 LET r == (k - 1) \div 4
                     c == (k - 1) % 4
                 IN  fmul(get(b, r, 0), get(a, 0, c)) + fmul(get(b, r, 1), get(a, 1, c))
                   + fmul(get(b, r, 2), get(a, 2, c)) + fmul(get(b, r, 3), get(a, 3, c))]]

\* impl Mul<Matrix> for Matrix: a new 4x4 matrix from self.get(row, 0..4) and
\* other.get(0..4, col) for row, col in 0..4, whatever the shapes of the
\* operands; a get that panics ends the call
matrix_mul(a, b) ==
    IF \E i, j \in 0..3 : panicked(get(a, i, j)) \/ panicked(get(b, i, j)) THEN Panic
    ELSE [row |-> 4, col |-> 4,
          grid |-> [k \in 1..16 |->
                 LET r == (k - 1) \div 4
                     c == (k - 1) % 4
                 IN  fmul(get(a, r, 0), get(b, 0, c)) + fmul(get(a, r, 1), get(b, 1, c))
                   + fmul(get(a, r, 2), get(b, 2, c)) + fmul(get(a, r, 3), get(b, 3, c))]]

\* impl Mul<Point> for Matrix: the point has w = 1
matrix_mul_point(m, p) ==
    LET val(r) == fmul(get(m, r, 0), p.x) + fmul(get(m, r, 1), p.y)
                + fmul(get(m, r, 2), p.z) + fmul(get(m, r, 3), FP(1))
    IN  Point_new(val(0), val(1), val(2))

\* impl Mul<Vector> for Matrix: the vector has w = 0
matrix_mul_vector(m, v) ==
    LET val(r) == fmul(get(m, r, 0), v.x) + fmul(get(m, r, 1), v.y)
                + fmul(get(m, r, 2), v.z)
    IN  Vector_new(val(0), val(1), val(2))

\* impl PartialEq for Matrix
matrix_eq(a, b) ==
    \A k \in 1..Len(a.grid) : fp_equal(a.grid[k], b.grid[k])

---------------------------------------------------------------------------
(* Material, Sphere, PointLight.                                           *)

Material_new(color, ambient, diffuse, specular, shininess) ==
    [color |-> color, ambient |-> ambient, diffuse |-> diffuse,
     specular |-> specular, shininess |-> shininess]

\* Material::set_color
set_color(m, new) == [m EXCEPT !.color = new]

\* set_ambient that assigns the neighbouring field
set_ambient_into_diffuse(m, new) == [m EXCEPT !.diffuse = new]

\* Material::set_ambient
set_ambient(m, new) == [m EXCEPT !.ambient = new]

\* Material::set_diffuse
set_diffuse(m, new) == [m EXCEPT !.diffuse = new]

\* Material::set_specular
set_specular(m, new) == [m EXCEPT !.specular = new]

\* Material::set_shininess
set_shininess(m, new) == [m EXCEPT !.shininess = new]

\* Material::default: white, 0.1, 0.9, 0.9, 200.0
Material_default == Material_new(White, 100, 900, 900, FP(200))

\* Sphere::default
Sphere_default == [matrix |-> identity, material |-> Material_default]

\* Sphere::set_transform
sphere_set_transform(s, m) == [s EXCEPT !.matrix = m]

\* Sphere::set_material
sphere_set_material(s, m) == [s EXCEPT !.material = m]

\* normal_with_inverse that maps the normal with the inverse, not its transpose
normal_with_inverse_untransposed(inv, p) ==
    LET object_point  == matrix_mul_point(inv, p)
        object_normal == point_sub(object_point, Point_new(0, 0, 0))
        world_normal  == matrix_mul_vector(inv, object_normal)
    IN  normalize(world_normal)

\* the body of normal_at, given inv = self.transform().inverse()
normal_with_inverse(inv, p) ==
    LET object_point  == matrix_mul_point(inv, p)
        object_normal == point_sub(object_point, Point_new(0, 0, 0))
        world_normal  == matrix_mul_vector(transpose(inv), object_normal)
    IN  normalize(world_normal)

\* Sphere::normal_at: self.transform().inverse() panics on a singular transform
normal_at(s, p) ==
    IF ~invertible(s.matrix) THEN Panic
    ELSE normal_with_inverse(inverse(s.matrix), p)

PointLight_new(position, intensity) == [position |-> position, intensity |-> intensity]

\* PointLight::lighting(&self, mat, pos, eye, normal): it has no in_shadow
\* parameter and always evaluates the diffuse and specular terms
lighting(light, mat, pos, eye, normal) ==
    LET effective_color  == color_mul(mat.color, light.intensity)
        lightv           == normalize(point_sub(light.position, pos))
        ambient          == color_scale(effective_color, mat.ambient)
        light_dot_normal == dot(lightv, normal)
        diff             == color_scale(color_scale(effective_color, mat.diffuse),
                                        light_dot_normal)
        reflectv         == reflect(vector_neg(lightv), normal)
        reflect_dot_eye  == dot(reflectv, eye)
        factor           == powf(reflect_dot_eye, mat.shininess \div Scale)
        diffuse  == IF light_dot_normal < 0 THEN Black ELSE diff
        specular == IF light_dot_normal < 0 THEN Black
                    ELSE IF reflect_dot_eye <= 0 THEN Black
                    ELSE color_scale(color_scale(light.intensity, mat.specular), factor)
    IN  color_add(color_add(ambient, diffuse), specular)

---------------------------------------------------------------------------
(* Ray, Intersection, hit.                                                 *)

Ray_new(origin, direction) == [origin |-> origin, direction |-> direction]

\* Ray::position: self.origin + self.direction * t
position(r, t) == point_add_vector(r.origin, vector_mul(r.direction, t))

\* Ray::transform
ray_transform(r, m) ==
    [origin |-> matrix_mul_point(m, r.origin),
     direction |-> matrix_mul_vector(m, r.direction)]

Intersection_new(t, object) == [t |-> t, object |-> object]

\* intersect_roots that answers a tangent with a single intersection
intersect_roots_single_tangent(a, b, discriminant, s) ==
    IF discriminant < 0 THEN <<>>
    ELSE IF discriminant = 0 THEN <<Intersection_new(fdiv(-b, fmul(FP(2), a)), s)>>
    ELSE <<Intersection_new(fdiv(-b - fsqrt(discriminant), fmul(FP(2), a)), s),
           Intersection_new(fdiv(-b + fsqrt(discriminant), fmul(FP(2), a)), s)>>

\* the end of intersect, given a, b and the discriminant
intersect_roots(a, b, discriminant, s) ==
    IF discriminant < 0 THEN <<>>
    ELSE <<Intersection_new(fdiv(-b - fsqrt(discriminant), fmul(FP(2), a)), s),
           Intersection_new(fdiv(-b + fsqrt(discriminant), fmul(FP(2), a)), s)>>

\* let discriminant = b.powi(2) - 4.0 * a * c
intersect_quadratic(a, b, c, s) ==
    intersect_roots(a, b, powi2(b) - fmul(fmul(FP(4), a), c), s)

\* the coefficients a, b, c of intersect, given the direction of the
\* transformed ray and sphere_to_ray
intersect_coefficients(direction, sphere_to_ray, s) ==
    intersect_quadratic(dot(direction, direction),
                        fmul(FP(2), dot(direction, sphere_to_ray)),
                        dot(sphere_to_ray, sphere_to_ray) - FP(1), s)

\* the body of intersect, given ray = self.transform(s.transform().inverse())
intersect_transformed(r2, s) ==
    intersect_coefficients(r2.direction, point_sub(r2.origin, Point_new(0, 0, 0)), s)

\* Ray::intersect: s.transform().inverse() panics on a singular transform
intersect(r, s) ==
    IF ~invertible(s.matrix) THEN Panic
    ELSE intersect_transformed(ray_transform(r, inverse(s.matrix)), s)

\* Option<T>
None == [some |-> FALSE]

Some(v) == [some |-> TRUE, value |-> v]

\* std::f32::MAX, the largest finite f32 (1000.0 in the fixed-point range)
F32_MAX == 1000000

RECURSIVE hit_for_each_last(_, _, _)
\* hit_for_each without the comparison to current: the last one wins
hit_for_each_last(above_zero, current, cinter) ==
    IF above_zero = <<>> THEN cinter
    ELSE hit_for_each_last(Tail(above_zero), Head(above_zero).t, Some(Head(above_zero)))

RECURSIVE hit_for_each(_, _, _)
\* the for_each of hit over the filtered list, keeping (current, cinter)
hit_for_each(above_zero, current, cinter) ==
    IF above_zero = <<>> THEN cinter
    ELSE LET inter == Head(above_zero)
         IN  IF inter.t < current
             THEN hit_for_each(Tail(above_zero), inter.t, Some(inter))
             ELSE hit_for_each(Tail(above_zero), current, cinter)

\* the filter of hit with >= for >
above_zero_filter_inclusive(x) == x.t >= 0

\* the filter of hit: |x| x.t() > 0.0
above_zero_filter(x) == x.t > 0

\* ray::hit
hit(intersections) ==
    hit_for_each(SelectSeq(intersections, above_zero_filter), F32_MAX, None)

---------------------------------------------------------------------------
(* WorldIntersection (the precomputed state of a hit) and World.           *)

\* the shadow bias 0.005 of precompute, in fixed-point units
OverPointBias == 5

\* precompute_bundle that keeps the surface normal of an inside hit
precompute_bundle_unflipped(inter, pt, eye, normal) ==
    [inter      |-> inter,
     point      |-> pt,
     eye        |-> eye,
     normal     |-> normal,
     inside     |-> dot(normal, eye) < 0,
     over_point |-> point_add_vector(pt, vector_mul(normal, OverPointBias))]

\* the WorldIntersection precompute builds, given point, eye and normal
precompute_bundle(inter, pt, eye, normal) ==
    LET inside == dot(normal, eye) < 0
    IN  [inter      |-> inter,
         point      |-> pt,
         eye        |-> eye,
         normal     |-> IF inside THEN vector_neg(normal) ELSE normal,
         inside     |-> inside,
         over_point |-> point_add_vector(pt, vector_mul(normal, OverPointBias))]

\* let normal = inter.object().normal_at(point)
precompute_at(inter, r, pt) ==
    precompute_bundle(inter, pt, vector_neg(r.direction), normal_at(inter.object, pt))

\* WorldIntersection::precompute
precompute(inter, r) == precompute_at(inter, r, position(r, inter.t))

World_new(objects, light) == [objects |-> objects, light |-> light]

RECURSIVE flat_map_intersect(_, _)
\* objects.iter().map(|x| ray.intersect(x)).flatten().collect()
flat_map_intersect(objects, r) ==
    IF objects = <<>> THEN <<>>
    ELSE intersect(r, Head(objects)) \o flat_map_intersect(Tail(objects), r)

RECURSIVE insert_by_t(_, _)
\* x put into the sorted list after every element whose t is not greater
insert_by_t(sorted, x) ==
    IF sorted = <<>> THEN <<x>>
    ELSE IF Head(sorted).t <= x.t THEN <<Head(sorted)>> \o insert_by_t(Tail(sorted), x)
    ELSE <<x>> \o sorted

\* intersect_world without its sort
sort_by_t_skipped(list) == list

RECURSIVE sort_by_t(_)
\* Vec::sort_by(|a, b| a.t().partial_cmp(&b.t())): a stable sort, ascending t
sort_by_t(list) ==
    IF list = <<>> THEN <<>>
    ELSE insert_by_t(sort_by_t(SubSeq(list, 1, Len(list) - 1)), list[Len(list)])

\* World::intersect_world
intersect_world(w, r) == sort_by_t(flat_map_intersect(w.objects, r))

\* shadow_test that ignores the distance to the light
shadow_test_any_hit(h, distance) == h.some

\* if let Some(h) = hit(intersections) { h.t() < distance } else { false }
shadow_test(h, distance) == IF h.some THEN h.value.t < distance ELSE FALSE

\* the body of is_shadowed, given v = self.light.position() - point
shadow_along(w, p, v) ==
    shadow_test(hit(intersect_world(w, Ray_new(p, normalize(v)))), magnitude(v))

\* World::is_shadowed
is_shadowed(w, p) == shadow_along(w, p, point_sub(w.light.position, p))

\* World::shade_hit: shadowed is computed and handed to lighting as a fifth
\* argument, for which PointLight::lighting has no parameter
shade_hit(w, comps) ==
    LET shadowed == is_shadowed(w, comps.over_point)
    IN  lighting(w.light, comps.inter.object.material,
                 comps.point, comps.eye, comps.normal)

\* color_of_hit with a white background
color_of_hit_white_miss(w, r, h) ==
    IF h.some THEN shade_hit(w, precompute(h.value, r))
    ELSE White

\* the match of color_at on hit(inters)
color_of_hit(w, r, h) ==
    IF h.some THEN shade_hit(w, precompute(h.value, r))
    ELSE Color_new(0, 0, 0)

\* World::color_at
color_at(w, r) == color_of_hit(w, r, hit(intersect_world(w, r)))

---------------------------------------------------------------------------
(* Canvas and Camera.                                                      *)

\* Canvas::new: height rows of width black pixels; grid[y + 1][x + 1] here is
\* grid[y][x] of the source
Canvas_new(width, height) ==
    [width |-> width, height |-> height,
     grid |-> [r \in 1..height |-> [c \in 1..width |-> Black]]]

\* Canvas::pixel_at
pixel_at(canvas, x, y) ==
    IF y + 1 > Len(canvas.grid) THEN Panic
    ELSE IF x + 1 > Len(canvas.grid[y + 1]) THEN Panic
    ELSE canvas.grid[y + 1][x + 1]

\* write_pixel that also overwrites the next cell of the row
write_pixel_smeared(canvas, x, y, color) ==
    IF y + 1 > Len(canvas.grid) THEN Panic
    ELSE IF x + 1 > Len(canvas.grid[y + 1]) THEN Panic
    ELSE IF x + 2 > Len(canvas.grid[y + 1])
         THEN [canvas EXCEPT !.grid[y + 1][x + 1] = color]
         ELSE [canvas EXCEPT !.grid[y + 1][x + 1] = color, !.grid[y + 1][x + 2] = color]

\* Canvas::write_pixel
write_pixel(canvas, x, y, color) ==
    IF y + 1 > Len(canvas.grid) THEN Panic
    ELSE IF x + 1 > Len(canvas.grid[y + 1]) THEN Panic
    ELSE [canvas EXCEPT !.grid[y + 1][x + 1] = color]

\* A String is the sequence of its characters, each a one-character string.
Digits == <<"0", "1", "2", "3", "4", "5", "6", "7", "8", "9">>

RECURSIVE decimal(_)
\* format!("{}", n) of a u32
decimal(n) ==
    IF n < 10 THEN <<Digits[n + 1]>>
    ELSE decimal(n \div 10) \o <<Digits[(n % 10) + 1]>>

\* convert that cuts the fraction off instead of rounding
convert_truncating(x) ==
    LET val  == x * 255
        low  == IF val < 0 THEN 0 ELSE val
        high == IF low > FP(255) THEN FP(255) ELSE low
    IN  high \div Scale

\* Canvas::convert: x * 255.0 clamped to 0.0..255.0, then round() as u32
convert(x) ==
    LET val  == x * 255
        low  == IF val < 0 THEN 0 ELSE val
        high == IF low > FP(255) THEN FP(255) ELSE low
    IN  RoundDiv(high, Scale)

\* format!("{} {} {} ", convert(red), convert(green), convert(blue))
pixel_text(pixel) ==
    decimal(convert(pixel.red)) \o <<" ">> \o decimal(convert(pixel.green)) \o <<" ">>
        \o decimal(convert(pixel.blue)) \o <<" ">>

RECURSIVE row_text(_)
\* newline after the loop over the pixels of a line
row_text(line) ==
    IF line = <<>> THEN <<>> ELSE pixel_text(Head(line)) \o row_text(Tail(line))

\* str::rfind(' ').unwrap(): the byte index of the last space, a panic on None
rfind_space(s) ==
    LET found == {k \in 1..Len(s) : s[k] = " "}
    IN  IF found = {} THEN Panic
        ELSE (CHOOSE k \in found : \A j \in found : j <= k) - 1

RECURSIVE split_long(_, _, _)
\* one pass of the splitting loop with pos found: the space becomes a line
\* feed and the next window starts at it
split_at(newline, start, pos, count) ==
    IF panicked(pos) THEN Panic
    ELSE split_long([newline EXCEPT ![start + pos + 1] = "\n"], start + pos, count - 1)

\* the loop `for _ in 0..(newline.len() / 70)` with count passes left: the
\* slice newline[start..(start + 71)] panics when it ends after the string
split_long(newline, start, count) ==
    IF count = 0 THEN newline
    ELSE IF start + 71 > Len(newline) THEN Panic
    ELSE split_at(newline, start, rfind_space(SubSeq(newline, start + 1, start + 71)),
                  count)

\* the text of one row as it is appended to str
split_row(newline) ==
    IF Len(newline) > 70 THEN split_long(newline, 0, Len(newline) \div 70)
    ELSE newline

RECURSIVE ppm_rows(_, _, _)
\* str.push_str(&newline); str.pop(); str.push_str("\n")
push_row(str, newline, grid, k) ==
    IF panicked(newline) THEN Panic
    ELSE ppm_rows(SubSeq(str \o newline, 1, Len(str) + Len(newline) - 1) \o <<"\n">>,
                  grid, k + 1)

\* the loop `for line in self.grid` from row k on
ppm_rows(str, grid, k) ==
    IF k > Len(grid) THEN str
    ELSE push_row(str, split_row(row_text(grid[k])), grid, k)

\* Canvas::to_ppm
to_ppm(canvas) ==
    ppm_rows(<<"P", "3", "\n">> \o decimal(canvas.width) \o <<" ">>
                \o decimal(canvas.height) \o <<"\n", "2", "5", "5", "\n">>,
             canvas.grid, 1)

\* std::f32::consts::PI / 2.0
FRAC_PI_2 == 1571

\* f32::tan, tabulated for the half field of view the cameras use: tan(pi/4) = 1
tan(a) == IF a = fdiv(FRAC_PI_2, FP(2)) THEN FP(1) ELSE Panic

\* an f32 that is not a number
NaN == [nan |-> TRUE]

\* Camera::new for hsize = 0 or vsize = 0, where the f32 divisions by zero do
\* not panic: with vsize = 0 < hsize the aspect is infinite and half_height is
\* half_view / inf = 0; with hsize = 0 < vsize the aspect and half_width are 0
\* and pixel_size is 0 / 0; with both 0 the aspect is NaN, which is not >= 1
Camera_new_empty(hsize, vsize, field_of_view) ==
    LET half_view == tan(fdiv(field_of_view, FP(2)))
    IN  [hsize |-> hsize, vsize |-> vsize, field_of_view |-> field_of_view,
         transform |-> identity,
         pixel_size |-> IF hsize = 0 THEN NaN
                        ELSE fdiv(fmul(half_view, FP(2)), FP(hsize)),
         half_width |-> IF hsize > 0 THEN half_view ELSE IF vsize > 0 THEN 0 ELSE NaN,
         half_height |-> IF hsize > 0 THEN 0 ELSE half_view]

\* Camera::new
Camera_new(hsize, vsize, field_of_view) ==
    IF hsize = 0 \/ vsize = 0 THEN Camera_new_empty(hsize, vsize, field_of_view)
    ELSE
    LET half_view   == tan(fdiv(field_of_view, FP(2)))
        aspect      == fdiv(FP(hsize), FP(vsize))
        half_width  == IF aspect >= FP(1) THEN half_view ELSE fmul(half_view, aspect)
        half_height == IF aspect >= FP(1) THEN fdiv(half_view, aspect) ELSE half_view
    IN  [hsize |-> hsize, vsize |-> vsize, field_of_view |-> field_of_view,
         transform |-> identity,
         pixel_size |-> fdiv(fmul(half_width, FP(2)), FP(hsize)),
         half_width |-> half_width, half_height |-> half_height]

\* Camera::set_transform rebuilding the camera for the exchanged sizes
camera_set_transform_rebuilt(cam, new) ==
    [Camera_new(cam.vsize, cam.hsize, cam.field_of_view) EXCEPT !.transform = new]

\* Camera::set_transform
camera_set_transform(cam, new) == [cam EXCEPT !.transform = new]

\* Matrix::view_transform
view_transform(from, to, up) ==
    LET forward == normalize(point_sub(to, from))
        up_norm == normalize(up)
        left    == cross(forward, up_norm)
        true_up == cross(left, forward)
        orientation ==
            new_filled(<< <<left.x, left.y, left.z, 0>>,
                          <<true_up.x, true_up.y, true_up.z, 0>>,
                          <<-forward.x, -forward.y, -forward.z, 0>>,
                          <<0, 0, 0, FP(1)>> >>)
    IN  matrix_mul(orientation, translation(-from.x, -from.y, -from.z))

\* Ray::new(origin, (pixel - origin).normalize())
ray_through(pixel, origin) == Ray_new(origin, normalize(point_sub(pixel, origin)))

\* the body of ray_for_pixel, given inv = self.transform().inverse(), which
\* the source evaluates twice
ray_for_pixel_with(cam, x, y, inv) ==
    LET xoffset == fmul(FP(x) + Scale \div 2, cam.pixel_size)
        yoffset == fmul(FP(y) + Scale \div 2, cam.pixel_size)
        world_x == cam.half_width - xoffset
        world_y == cam.half_height - yoffset
    IN  ray_through(matrix_mul_point(inv, Point_new(world_x, world_y, -FP(1))),
                    matrix_mul_point(inv, Point_new(0, 0, 0)))

\* Camera::ray_for_pixel
ray_for_pixel(cam, x, y) == ray_for_pixel_with(cam, x, y, inverse(cam.transform))

\* A u32 beyond the integers of the checker is held as its 32-bit pattern: a
\* number below 0 stands for that number plus 2^32.
\* a < b on u32
u32_lt(a, b) == IF (a < 0) = (b < 0) THEN a < b ELSE b < 0

\* a - b on u32 for a, b below 2^31: when b > a the subtraction panics in a
\* build with overflow checks (the debug profile) and wraps in one without
\* (the release profile)
u32_sub(a, b, overflow_checks) ==
    IF a >= b THEN a - b
    ELSE IF overflow_checks THEN Panic
    ELSE a - b

RECURSIVE render_from(_, _, _, _, _)
\* the loops of render from (x, y) on, image being the canvas so far
render_from(cam, w, img, x, y) ==
    IF ~(y < cam.vsize - 1) THEN img
    ELSE IF ~(x < cam.hsize - 1) THEN render_from(cam, w, img, 0, y + 1)
    ELSE render_from(cam, w,
                     write_pixel(img, x, y, color_at(w, ray_for_pixel(cam, x, y))),
                     x + 1, y)

\* Camera::render
render(cam, w) == render_from(cam, w, Canvas_new(cam.hsize, cam.vsize), 0, 0)

---------------------------------------------------------------------------
(* Inputs the operations are applied to.                                   *)

\* value of a variable the specification at hand does not use
Unused == "unused"

\* largest whole coordinate of the points and vectors of the algebra checks
MaxCoord == 1

\* longest intersection list handed to hit
MaxInters == 3

\* largest whole t of the intersection lists handed to hit
MaxT == 2

\* most shapes of a world
MaxObjects == 2

\* largest hsize and vsize of a camera
MaxSize == 3

Coords == {FP(k) : k \in (-MaxCoord)..MaxCoord}

Points == {Point_new(a, b, c) : a \in Coords, b \in Coords, c \in Coords}

Vectors == {Vector_new(a, b, c) : a \in Coords, b \in Coords, c \in Coords}

Scalars == Coords \cup {FP(2) + Scale \div 2}

SeqsUpTo(S, n) == UNION {[1..k -> S] : k \in 0..n}

\* the material of the outer sphere of World::default
OuterMaterial ==
    [Material_default EXCEPT !.color = Color_new(800, FP(1), 600),
                             !.diffuse = 700, !.specular = 200]

OuterSphere == sphere_set_material(Sphere_default, OuterMaterial)

InnerSphere == sphere_set_transform(Sphere_default, scaling(500, 500, 500))

FarSphere == sphere_set_transform(Sphere_default, translation(0, 0, FP(4)))

Shapes == {OuterSphere, InnerSphere, FarSphere}

Lights == {PointLight_new(Point_new(0, 0, -FP(5)), White),
           PointLight_new(Point_new(-FP(5), FP(5), -FP(5)), White)}

Worlds == {World_new(objs, l) : objs \in SeqsUpTo(Shapes, MaxObjects), l \in Lights}

PlusZ == Vector_new(0, 0, FP(1))

Rays == {Ray_new(Point_new(0, 0, -FP(5)), PlusZ),
         Ray_new(Point_new(0, FP(1), -FP(5)), PlusZ),
         Ray_new(Point_new(0, FP(2), -FP(5)), PlusZ),
         Ray_new(Point_new(0, 0, 0), PlusZ),
         Ray_new(Point_new(0, 0, FP(5)), PlusZ),
         Ray_new(Point_new(0, 0, FP(2)), vector_neg(PlusZ)),
         Ray_new(Point_new(0, 0, 0), Vector_new(FP(1), 0, 0))}

ShadowPoints == {Point_new(0, 0, -FP(8)), Point_new(0, 0, -FP(2)),
                 Point_new(0, 0, FP(3)), Point_new(0, FP(4), 0)}

HitTs == {FP(k) : k \in (-1)..MaxT} \cup {F32_MAX}

HitLists ==
    SeqsUpTo({Intersection_new(t, s) : t \in HitTs, s \in {OuterSphere, InnerSphere}},
             MaxInters)

Cameras ==
    {camera_set_transform(Camera_new(h, v, FRAC_PI_2), tr) :
        h \in 1..MaxSize, v \in 1..MaxSize,
        tr \in {identity,
                view_transform(Point_new(0, 0, -FP(5)), Point_new(0, 0, 0),
                               Vector_new(0, FP(1), 0))}}

RenderWorlds ==
    {World_new(<<>>, PointLight_new(Point_new(0, 0, -FP(5)), White)),
     World_new(<<OuterSphere>>, PointLight_new(Point_new(-FP(5), FP(5), -FP(5)), White))}

---------------------------------------------------------------------------
(* The world operations applied to a world, a ray and a point: each        *)
(* behaviour applies one operation to the inputs Init drew.                *)

render_idle == /\ camera = Unused /\ image = Unused /\ written = Unused
               /\ pc = "idle" /\ px = 0 /\ py = 0

shading_idle == /\ lamp = Unused /\ surface = Unused /\ surface_copy = Unused
                /\ surface_normal = Unused

matrix_idle == matrices = Unused

Init ==
    /\ world \in Worlds
    /\ ray \in Rays
    /\ point \in ShadowPoints
    /\ vector = Unused /\ scalar = Unused /\ inters = Unused
    /\ render_idle /\ shading_idle /\ matrix_idle
    /\ op = "init" /\ result = Unused

operands == <<world, camera, image, written, pc, px, py,
              ray, point, vector, scalar, inters,
              lamp, surface, surface_copy, surface_normal, matrices>>

\* ray.intersect(&world.objects[i])
Intersect ==
    \E i \in 1..Len(world.objects) :
        /\ op = "init"
        /\ op' = "intersect"
        /\ result' = [object |-> world.objects[i], xs |-> intersect(ray, world.objects[i])]
        /\ UNCHANGED operands

\* world.intersect_world(&ray)
IntersectWorld ==
    /\ op = "init"
    /\ op' = "intersect_world"
    /\ result' = intersect_world(world, ray)
    /\ UNCHANGED operands

\* world.is_shadowed(point)
IsShadowed ==
    /\ op = "init"
    /\ op' = "is_shadowed"
    /\ result' = is_shadowed(world, point)
    /\ UNCHANGED operands

\* world.shade_hit(&WorldIntersection::precompute(int, &ray)) for the hit int
ShadeHit ==
    /\ op = "init"
    /\ \E h \in {hit(intersect_world(world, ray))} :
          /\ h.some
          /\ \E comps \in {precompute(h.value, ray)} :
                result' = [comps |-> comps, color |-> shade_hit(world, comps)]
    /\ op' = "shade_hit"
    /\ UNCHANGED operands

\* WorldIntersection::precompute(int, &ray) for any int of ray.intersect
Precompute ==
    /\ op = "init"
    /\ \E i \in 1..Len(world.objects) :
          \E xs \in {intersect(ray, world.objects[i])} :
             \E k \in 1..Len(xs) : result' = precompute(xs[k], ray)
    /\ op' = "precompute"
    /\ UNCHANGED operands

\* world.color_at(&ray)
ColorAt ==
    /\ op = "init"
    /\ op' = "color_at"
    /\ result' = color_at(world, ray)
    /\ UNCHANGED operands

Next == Intersect \/ IntersectWorld \/ IsShadowed \/ ShadeHit \/ Precompute \/ ColorAt

Spec == Init /\ [][Next]_vars

---------------------------------------------------------------------------
(* Point and Vector arithmetic and Ray::position.                          *)

InitAlgebra ==
    /\ point \in Points
    /\ vector \in Vectors
    /\ scalar \in Scalars
    /\ world = Unused /\ ray = Unused /\ inters = Unused
    /\ render_idle /\ shading_idle /\ matrix_idle
    /\ op = "init" /\ result = Unused

\* point + vector
AddVector ==
    /\ op = "init"
    /\ op' = "add"
    /\ result' = point_add_vector(point, vector)
    /\ UNCHANGED operands

\* (point + vector) - vector
AddThenSubVector ==
    /\ op = "init"
    /\ op' = "add_sub_vector"
    /\ result' = point_sub_vector(point_add_vector(point, vector), vector)
    /\ UNCHANGED operands

\* (point + vector) - point
AddThenSubPoint ==
    /\ op = "init"
    /\ op' = "add_sub_point"
    /\ result' = point_sub(point_add_vector(point, vector), point)
    /\ UNCHANGED operands

\* Ray::new(point, vector).position(scalar)
Position ==
    /\ op = "init"
    /\ op' = "position"
    /\ result' = position(Ray_new(point, vector), scalar)
    /\ UNCHANGED operands

NextAlgebra == AddVector \/ AddThenSubVector \/ AddThenSubPoint \/ Position

SpecAlgebra == InitAlgebra /\ [][NextAlgebra]_vars

---------------------------------------------------------------------------
(* hit applied to a list of intersections in any order.                    *)

InitHit ==
    /\ inters \in HitLists
    /\ world = Unused /\ ray = Unused /\ point = Unused
    /\ vector = Unused /\ scalar = Unused
    /\ render_idle /\ shading_idle /\ matrix_idle
    /\ op = "init" /\ result = Unused

\* hit(inters)
Hit ==
    /\ op = "init"
    /\ op' = "hit"
    /\ result' = hit(inters)
    /\ UNCHANGED operands

NextHit == Hit

SpecHit == InitHit /\ [][NextHit]_vars

---------------------------------------------------------------------------
(* Camera::render, one step per evaluation of a loop header or loop body.  *)

\* the build profiles: scalar names the one of the run
Profiles == {"debug", "release"}

InitRender ==
    /\ world \in RenderWorlds
    /\ camera \in Cameras
    /\ image = Unused /\ written = Unused
    /\ pc = "idle" /\ px = 0 /\ py = 0
    /\ ray = Unused /\ point = Unused /\ vector = Unused
    /\ scalar \in Profiles /\ inters = Unused
    /\ shading_idle /\ matrix_idle
    /\ op = "init" /\ result = Unused

render_frame == <<world, camera, ray, point, vector, scalar, inters,
                  lamp, surface, surface_copy, surface_normal, matrices>>

\* let mut image = Canvas::new(self.hsize, self.vsize);
RenderBegin ==
    /\ pc = "idle"
    /\ image' = Canvas_new(camera.hsize, camera.vsize)
    /\ written' = [c \in (0..(camera.hsize - 1)) \X (0..(camera.vsize - 1)) |-> 0]
    /\ py' = 0 /\ px' = 0
    /\ pc' = "rows"
    /\ op' = "render" /\ result' = Unused
    /\ UNCHANGED render_frame

\* the rows a wrapped loop is followed beyond the canvas
MaxExtraRows == 2

\* for y in 0..(self.vsize - 1)
RenderRow ==
    /\ pc = "rows"
    /\ \E bound \in {u32_sub(camera.vsize, 1, scalar = "debug")} :
        IF panicked(bound)
        THEN /\ pc' = "panic"
             /\ UNCHANGED <<px, py, result>>
        ELSE IF u32_lt(py, bound)
        THEN /\ pc' = "columns" /\ px' = 0
             /\ UNCHANGED <<py, result>>
        ELSE /\ pc' = "done" /\ result' = image
             /\ UNCHANGED <<px, py>>
    /\ UNCHANGED <<image, written, op>>
    /\ UNCHANGED render_frame

\* image.write_pixel(x, y, world.color_at(&ray)) with the canvas it leaves
RenderWrite(img) ==
    IF panicked(img)
    THEN /\ pc' = "panic"
         /\ UNCHANGED <<image, written, px, py>>
    ELSE /\ image' = img
         /\ written' = [written EXCEPT ![<<px, py>>] = @ + 1]
         /\ px' = px + 1
         /\ UNCHANGED <<py, pc>>

\* for x in 0..(self.hsize - 1) { image.write_pixel(x, y, world.color_at(&ray)) }
RenderPixel ==
    /\ pc = "columns"
    /\ \E bound \in {u32_sub(camera.hsize, 1, scalar = "debug")} :
        IF panicked(bound)
        THEN /\ pc' = "panic"
             /\ UNCHANGED <<image, written, px, py>>
        ELSE IF u32_lt(px, bound)
        THEN RenderWrite(write_pixel(image, px, py,
                                     color_at(world, ray_for_pixel(camera, px, py))))
        ELSE /\ py < camera.vsize + MaxExtraRows
             /\ py' = py + 1 /\ pc' = "rows"
             /\ UNCHANGED <<image, written, px>>
    /\ UNCHANGED <<op, result>>
    /\ UNCHANGED render_frame

NextRender == RenderBegin \/ RenderRow \/ RenderPixel

SpecRender == InitRender /\ [][NextRender]_vars

\* cameras of every size from 0 x 0 on
SizedCameras == {Camera_new(h, v, FRAC_PI_2) : h \in 0..MaxSize, v \in 0..MaxSize}

InitRenderSizes ==
    /\ world \in RenderWorlds
    /\ camera \in SizedCameras
    /\ image = Unused /\ written = Unused
    /\ pc = "idle" /\ px = 0 /\ py = 0
    /\ ray = Unused /\ point = Unused /\ vector = Unused
    /\ scalar \in Profiles /\ inters = Unused
    /\ shading_idle /\ matrix_idle
    /\ op = "init" /\ result = Unused

SpecRenderSizes == InitRenderSizes /\ [][NextRender]_vars

---------------------------------------------------------------------------
(* PointLight::lighting applied to a light, a material, a position, an eye *)
(* vector and a normal.                                                    *)

\* the light positions of the lighting tests, and a light grazing the surface
LampPositions == {Point_new(0, 0, -FP(10)), Point_new(0, FP(10), -FP(10)),
                  Point_new(0, FP(10), 0), Point_new(0, 0, FP(10))}

\* sqrt(2) / 2
HalfSqrt2 == fdiv(fsqrt(FP(2)), FP(2))

\* the eye vectors of the lighting tests, and eyes along the surface
Eyes == {Vector_new(0, 0, -FP(1)), Vector_new(0, HalfSqrt2, -HalfSqrt2),
         Vector_new(0, -HalfSqrt2, -HalfSqrt2), Vector_new(0, -FP(1), 0),
         Vector_new(0, FP(1), 0)}

SurfaceNormals == {Vector_new(0, 0, -FP(1)), Vector_new(0, FP(1), 0),
                   Vector_new(0, HalfSqrt2, -HalfSqrt2)}

Materials == {Material_default, OuterMaterial}

InitLighting ==
    /\ lamp \in {PointLight_new(p, White) : p \in LampPositions}
    /\ surface \in Materials
    /\ point = Point_new(0, 0, 0)
    /\ vector \in Eyes
    /\ surface_normal \in SurfaceNormals
    /\ surface_copy = Unused
    /\ world = Unused /\ ray = Unused /\ scalar = Unused /\ inters = Unused
    /\ render_idle /\ matrix_idle
    /\ op = "init" /\ result = Unused

\* lamp.lighting(&surface, point, vector, surface_normal)
Lighting ==
    /\ op = "init"
    /\ op' = "lighting"
    /\ result' = lighting(lamp, surface, point, vector, surface_normal)
    /\ UNCHANGED operands

NextLighting == Lighting

SpecLighting == InitLighting /\ [][NextLighting]_vars

---------------------------------------------------------------------------
(* Matrix operations applied to matrices A, B and C, and the sphere        *)
(* operations applied to a sphere whose transform is A.                    *)

\* transforms built by the constructors, a transposed translation (as
\* normal_at builds), and two singular scalings
Matrices == {identity,
             translation(FP(1), FP(2), FP(3)),
             scaling(FP(2), FP(4), Scale \div 2),
             shearing(FP(1), 0, 0, 0, FP(2), 0),
             transpose(translation(FP(1), FP(2), FP(3))),
             scaling(0, 0, 0),
             scaling(FP(1), 0, FP(1))}

MatrixPoints == {Point_new(0, 0, 0), Point_new(FP(1), 0, 0), Point_new(FP(1), FP(2), FP(3))}

InitMatrix ==
    /\ matrices \in [1..3 -> Matrices]
    /\ point \in MatrixPoints
    /\ ray = Ray_new(Point_new(0, 0, -FP(5)), PlusZ)
    /\ world = Unused /\ vector = Unused /\ scalar = Unused /\ inters = Unused
    /\ render_idle /\ shading_idle
    /\ op = "init" /\ result = Unused

\* matrices[1].inverse()
Inverse ==
    /\ op = "init"
    /\ op' = "inverse"
    /\ result' = inverse(matrices[1])
    /\ UNCHANGED operands

\* &a * &a.inverse()
MulByInverse ==
    /\ op = "init"
    /\ invertible(matrices[1])
    /\ op' = "mul_by_inverse"
    /\ result' = matrix_mul(matrices[1], inverse(matrices[1]))
    /\ UNCHANGED operands

\* a.inverse().inverse()
InverseTwice ==
    /\ op = "init"
    /\ invertible(matrices[1])
    /\ op' = "inverse_twice"
    /\ result' = inverse(inverse(matrices[1]))
    /\ UNCHANGED operands

\* (&a * &b) * b.inverse()
ProductByInverse ==
    /\ op = "init"
    /\ invertible(matrices[2])
    /\ op' = "product_by_inverse"
    /\ result' = matrix_mul(matrix_mul(matrices[1], matrices[2]), inverse(matrices[2]))
    /\ UNCHANGED operands

\* (c * b * a) * point
Chained ==
    /\ op = "init"
    /\ op' = "chained"
    /\ result' = matrix_mul_point(matrix_mul(matrix_mul(matrices[3], matrices[2]),
                                             matrices[1]), point)
    /\ UNCHANGED operands

\* ray.intersect(&Sphere::default().set_transform(a))
IntersectTransformed ==
    /\ op = "init"
    /\ op' = "intersect_transformed"
    /\ result' = intersect(ray, sphere_set_transform(Sphere_default, matrices[1]))
    /\ UNCHANGED operands

\* Sphere::default().set_transform(a).normal_at(point)
NormalAt ==
    /\ op = "init"
    /\ op' = "normal_at"
    /\ result' = normal_at(sphere_set_transform(Sphere_default, matrices[1]), point)
    /\ UNCHANGED operands

NextMatrix ==
    \/ Inverse \/ MulByInverse \/ InverseTwice \/ ProductByInverse
    \/ Chained \/ IntersectTransformed \/ NormalAt

SpecMatrix == InitMatrix /\ [][NextMatrix]_vars

---------------------------------------------------------------------------
(* The body of render's loops run once per coordinate of the loops, in any *)
(* order: every interleaving of workers that own disjoint rows is one such *)
(* order.                                                                  *)

\* the coordinates the loops of render visit
LoopCoordinates(cam) == (0..(cam.hsize - 2)) \X (0..(cam.vsize - 2))

\* let mut image = Canvas::new(self.hsize, self.vsize);
AnyOrderBegin ==
    /\ pc = "idle"
    /\ image' = Canvas_new(camera.hsize, camera.vsize)
    /\ written' = [c \in (0..(camera.hsize - 1)) \X (0..(camera.vsize - 1)) |-> 0]
    /\ pc' = "pixels"
    /\ op' = "render" /\ result' = Unused
    /\ UNCHANGED <<px, py>>
    /\ UNCHANGED render_frame

\* image.write_pixel(x, y, world.color_at(&self.ray_for_pixel(x, y))) for a
\* coordinate not rendered yet
AnyOrderPixel ==
    /\ pc = "pixels"
    /\ \E c \in LoopCoordinates(camera) :
          /\ written[c] = 0
          /\ image' = write_pixel(image, c[1], c[2],
                                  color_at(world, ray_for_pixel(camera, c[1], c[2])))
          /\ written' = [written EXCEPT ![c] = @ + 1]
    /\ UNCHANGED <<pc, px, py, op, result>>
    /\ UNCHANGED render_frame

\* image
AnyOrderEnd ==
    /\ pc = "pixels"
    /\ \A c \in LoopCoordinates(camera) : written[c] = 1
    /\ pc' = "done" /\ result' = image
    /\ UNCHANGED <<image, written, px, py, op>>
    /\ UNCHANGED render_frame

NextAnyOrder == AnyOrderBegin \/ AnyOrderPixel \/ AnyOrderEnd

SpecAnyOrder == InitRender /\ [][NextAnyOrder]_vars

---------------------------------------------------------------------------
(* The setters of Material applied, one after another, to a material of    *)
(* which a clone was taken first.                                          *)

\* the values handed to the f32 setters
NewValues == {0, FP(1)}

\* the colours handed to set_color
NewColors == {Black, Color_new(FP(1), Scale \div 5, FP(1))}

InitMaterial ==
    /\ surface \in Materials
    /\ surface_copy = surface
    /\ lamp = Unused /\ surface_normal = Unused
    /\ world = Unused /\ ray = Unused /\ point = Unused /\ vector = Unused
    /\ scalar = Unused /\ inters = Unused
    /\ render_idle /\ matrix_idle
    /\ op = "init" /\ result = Unused

material_frame == <<world, camera, image, written, pc, px, py, ray, point, vector,
                    scalar, inters, lamp, surface_copy, surface_normal, matrices>>

\* surface = surface.set_color(new)
SetColor ==
    \E new \in NewColors :
        /\ surface' = set_color(surface, new)
        /\ op' = "set_color" /\ result' = new
        /\ UNCHANGED material_frame

\* surface = surface.set_ambient(new)
SetAmbient ==
    \E new \in NewValues :
        /\ surface' = set_ambient(surface, new)
        /\ op' = "set_ambient" /\ result' = new
        /\ UNCHANGED material_frame

\* surface = surface.set_diffuse(new)
SetDiffuse ==
    \E new \in NewValues :
        /\ surface' = set_diffuse(surface, new)
        /\ op' = "set_diffuse" /\ result' = new
        /\ UNCHANGED material_frame

\* surface = surface.set_specular(new)
SetSpecular ==
    \E new \in NewValues :
        /\ surface' = set_specular(surface, new)
        /\ op' = "set_specular" /\ result' = new
        /\ UNCHANGED material_frame

\* surface = surface.set_shininess(new)
SetShininess ==
    \E new \in NewValues :
        /\ surface' = set_shininess(surface, new)
        /\ op' = "set_shininess" /\ result' = new
        /\ UNCHANGED material_frame

NextMaterial == SetColor \/ SetAmbient \/ SetDiffuse \/ SetSpecular \/ SetShininess

SpecMaterial == InitMaterial /\ [][NextMaterial]_vars

---------------------------------------------------------------------------
(* Camera::new followed by set_transform calls: SpecCamera.                  *)

\* the largest number of set_transform calls made on one camera
MaxCalls == 2

\* the transforms handed to set_transform
CameraTransforms ==
    Matrices \cup {view_transform(Point_new(0, 0, -FP(5)), Point_new(0, 0, 0),
                                  Vector_new(0, FP(1), 0))}

\* let camera = Camera::new(hsize, vsize, FRAC_PI_2)
InitCamera ==
    /\ \E h \in 1..MaxSize, v \in 1..MaxSize : camera = Camera_new(h, v, FRAC_PI_2)
    /\ scalar = 0
    /\ image = Unused /\ written = Unused /\ pc = "idle" /\ px = 0 /\ py = 0
    /\ world = Unused /\ ray = Unused /\ point = Unused /\ vector = Unused
    /\ inters = Unused
    /\ shading_idle /\ matrix_idle
    /\ op = "init" /\ result = Unused

\* camera = camera.set_transform(new); scalar counts the calls
SetTransform ==
    /\ scalar < MaxCalls
    /\ \E new \in CameraTransforms :
        /\ camera' = camera_set_transform(camera, new)
        /\ op' = "set_transform" /\ result' = new
    /\ scalar' = scalar + 1
    /\ UNCHANGED <<world, image, written, pc, px, py, ray, point, vector, inters,
                   lamp, surface, surface_copy, surface_normal, matrices>>

NextCamera == SetTransform

SpecCamera == InitCamera /\ [][NextCamera]_vars

---------------------------------------------------------------------------
(* The PartialEq implementations on numbers closer than epsilon:            *)
(* SpecEquality. In this section a number n stands for n / Fine, so that    *)
(* two different numbers can differ by less than the epsilon of fp_equal.   *)

Fine == Scale * Scale

\* utils::fp_equal on numbers in units of 1 / Fine: |a - b| < epsilon
fp_equal_fine(a, b) ==
    LET d == Abs(a - b)
    IN  d < Scale /\ d * EpsilonInv < Fine

\* impl PartialEq for Color
color_eq_fine(a, b) ==
    /\ fp_equal_fine(a.red, b.red)
    /\ fp_equal_fine(a.green, b.green)
    /\ fp_equal_fine(a.blue, b.blue)

\* impl PartialEq for Vector
vector_eq_fine(a, b) ==
    fp_equal_fine(a.x, b.x) /\ fp_equal_fine(a.y, b.y) /\ fp_equal_fine(a.z, b.z)

\* impl PartialEq for Point
point_eq_fine(a, b) ==
    fp_equal_fine(a.x, b.x) /\ fp_equal_fine(a.y, b.y) /\ fp_equal_fine(a.z, b.z)

\* impl PartialEq for Matrix: the shapes are asserted equal, then the cells
\* are compared with fp_equal
matrix_eq_fine(a, b) ==
    IF ~(a.row = b.row /\ a.col = b.col) THEN Panic
    ELSE \A k \in 1..Len(a.grid) : fp_equal_fine(a.grid[k], b.grid[k])

\* impl PartialEq for Intersection: fp_equal on t, the objects are not compared
intersection_eq_fine(a, b) == fp_equal_fine(a.t, b.t)

\* impl PartialEq for Material: the colours with Color's eq, then ambient,
\* diffuse, specular and shininess with != on f32
material_eq_fine(a, b) ==
    IF ~color_eq_fine(a.color, b.color) THEN FALSE
    ELSE \A f \in {"ambient", "diffuse", "specular", "shininess"} : ~(a[f] # b[f])

\* #[derive(PartialEq)] for Sphere: matrix == matrix && material == material
sphere_eq_fine(a, b) ==
    LET m == matrix_eq_fine(a.matrix, b.matrix)
    IN  IF panicked(m) THEN Panic
        ELSE m /\ material_eq_fine(a.material, b.material)

\* self == other for the type named by kind
eq(kind, a, b) ==
    CASE kind = "Color" -> color_eq_fine(a, b)
      [] kind = "Vector" -> vector_eq_fine(a, b)
      [] kind = "Point" -> point_eq_fine(a, b)
      [] kind = "Matrix" -> matrix_eq_fine(a, b)
      [] kind = "Intersection" -> intersection_eq_fine(a, b)
      [] kind = "Material" -> material_eq_fine(a, b)
      [] kind = "Sphere" -> sphere_eq_fine(a, b)

\* 0, 0.000005, 0.1 and 0.100005
FineValues == {0, 5, Fine \div 10, Fine \div 10 + 5}

FineMaterials ==
    {Material_new(Color_new(r, Fine, 0), a, Fine, Fine, Fine) :
        r \in {0, 5}, a \in FineValues}

\* the values compared, by type
EqOperands(kind) ==
    CASE kind = "Color" -> {Color_new(v, 0, Fine) : v \in FineValues}
      [] kind = "Vector" -> {Vector_new(v, 0, Fine) : v \in FineValues}
      [] kind = "Point" -> {Point_new(v, 0, Fine) : v \in FineValues}
      [] kind = "Matrix" ->
            {new_filled(<< <<Fine, v>>, <<0, Fine>> >>) : v \in FineValues}
      [] kind = "Intersection" ->
            {Intersection_new(v, s) : v \in FineValues, s \in {"sphere"}}
      [] kind = "Material" -> FineMaterials
      [] kind = "Sphere" ->
            {[matrix |-> new_filled(<< <<Fine, 0>>, <<v, Fine>> >>), material |-> m] :
                v \in {0, 5}, m \in {x \in FineMaterials : x.color.red = 0}}

EqKinds == {"Color", "Vector", "Point", "Matrix", "Intersection", "Material", "Sphere"}

\* surface and surface_copy are the two sides of ==, scalar names their type
InitEquality ==
    /\ scalar \in EqKinds
    /\ surface \in EqOperands(scalar)
    /\ surface_copy \in EqOperands(scalar)
    /\ lamp = Unused /\ surface_normal = Unused
    /\ world = Unused /\ ray = Unused /\ point = Unused /\ vector = Unused
    /\ inters = Unused
    /\ render_idle /\ matrix_idle
    /\ op = "init" /\ result = Unused

\* result = (surface == surface_copy)
Eq ==
    /\ op = "init"
    /\ op' = "eq" /\ result' = eq(scalar, surface, surface_copy)
    /\ UNCHANGED <<world, camera, image, written, pc, px, py, ray, point, vector,
                   scalar, inters, lamp, surface, surface_copy, surface_normal,
                   matrices>>

NextEquality == Eq

SpecEquality == InitEquality /\ [][NextEquality]_vars

---------------------------------------------------------------------------
(* Matrix operations on matrices of every shape: SpecShapes.                 *)

\* the largest number of rows and of columns of an operand
MaxDim == 5

\* the rows x cols matrix whose cells are 1.0, 2.0, ... in row-major order
Counting(rows, cols) ==
    new_filled([i \in 1..rows |-> [j \in 1..cols |-> FP((i - 1) * cols + j)]])

ShapedMatrices == {Counting(r, c) : r \in 2..MaxDim, c \in 2..MaxDim}

InitShapes ==
    /\ matrices \in ShapedMatrices \X {identity, Counting(4, 5), Counting(5, 5)}
    /\ world = Unused /\ ray = Unused /\ point = Unused /\ vector = Unused
    /\ scalar = Unused /\ inters = Unused
    /\ render_idle /\ shading_idle
    /\ op = "init" /\ result = Unused

\* matrices[1].determinant()
Determinant ==
    /\ op = "init"
    /\ op' = "determinant" /\ result' = determinant(matrices[1])
    /\ UNCHANGED operands

\* matrices[1].minor(drow, dcol)
Minor ==
    /\ op = "init"
    /\ \E drow \in 0..1, dcol \in 0..1 :
        /\ op' = "minor" /\ result' = minor(matrices[1], drow, dcol)
    /\ UNCHANGED operands

\* matrices[1].cofactor(drow, dcol)
Cofactor ==
    /\ op = "init"
    /\ \E drow \in 0..1, dcol \in 0..1 :
        /\ op' = "cofactor" /\ result' = cofactor(matrices[1], drow, dcol)
    /\ UNCHANGED operands

\* matrices[1] * matrices[2]
Mul ==
    /\ op = "init"
    /\ op' = "mul" /\ result' = matrix_mul(matrices[1], matrices[2])
    /\ UNCHANGED operands

\* matrices[1].transpose()
Transpose ==
    /\ op = "init"
    /\ op' = "transpose" /\ result' = transpose(matrices[1])
    /\ UNCHANGED operands

\* matrices[1].get(row, col); scalar keeps the index
Get ==
    /\ op = "init"
    /\ \E row \in 0..MaxDim, col \in 0..MaxDim :
        /\ scalar' = <<row, col>>
        /\ result' = get(matrices[1], row, col)
    /\ op' = "get"
    /\ UNCHANGED <<world, camera, image, written, pc, px, py, ray, point, vector,
                   inters, lamp, surface, surface_copy, surface_normal, matrices>>

\* matrices[1].set(row, col, -1.0); result is the matrix after the call
Set ==
    /\ op = "init"
    /\ \E row \in 0..MaxDim, col \in 0..MaxDim :
        /\ scalar' = <<row, col>>
        /\ result' = set(matrices[1], row, col, -FP(1))
    /\ op' = "set"
    /\ UNCHANGED <<world, camera, image, written, pc, px, py, ray, point, vector,
                   inters, lamp, surface, surface_copy, surface_normal, matrices>>

NextShapes == Determinant \/ Minor \/ Cofactor \/ Mul \/ Transpose \/ Get \/ Set

SpecShapes == InitShapes /\ [][NextShapes]_vars

---------------------------------------------------------------------------
(* Canvas::new followed by write_pixel and pixel_at calls: SpecCanvas.       *)

\* the largest number of write_pixel calls made on one canvas
MaxWrites == 3

\* the width and height of the canvases
CanvasShapes == {<<1, 1>>, <<2, 3>>, <<3, 2>>}

\* the colours written: one inside and one outside the range 0..1
CanvasColors == {Color_new(FP(1), Scale \div 2, 0), Color_new(-Scale \div 2, 0, FP(2))}

\* let image = Canvas::new(width, height); written lists the calls made
InitCanvas ==
    /\ \E shape \in CanvasShapes : image = Canvas_new(shape[1], shape[2])
    /\ written = <<>>
    /\ camera = Unused /\ pc = "idle" /\ px = 0 /\ py = 0
    /\ world = Unused /\ ray = Unused /\ point = Unused /\ vector = Unused
    /\ scalar = Unused /\ inters = Unused
    /\ shading_idle /\ matrix_idle
    /\ op = "init" /\ result = Unused

\* image.write_pixel(x, y, c)
WritePixel ==
    /\ op # "pixel_at"
    /\ Len(written) < MaxWrites
    /\ \E x \in 0..(image.width - 1), y \in 0..(image.height - 1), c \in CanvasColors :
        /\ image' = write_pixel(image, x, y, c)
        /\ written' = Append(written, [x |-> x, y |-> y, color |-> c])
    /\ op' = "write_pixel" /\ result' = Unused
    /\ UNCHANGED <<world, camera, pc, px, py, ray, point, vector, scalar, inters,
                   lamp, surface, surface_copy, surface_normal, matrices>>

\* result = image.pixel_at(px, py)
PixelAt ==
    /\ op # "pixel_at"
    /\ \E x \in 0..(image.width - 1), y \in 0..(image.height - 1) :
        /\ px' = x /\ py' = y
        /\ result' = pixel_at(image, x, y)
    /\ op' = "pixel_at"
    /\ UNCHANGED <<world, camera, image, written, pc, ray, point, vector, scalar,
                   inters, lamp, surface, surface_copy, surface_normal, matrices>>

NextCanvas == WritePixel \/ PixelAt

SpecCanvas == InitCanvas /\ [][NextCanvas]_vars

---------------------------------------------------------------------------
(* Canvas::to_ppm on canvases of every width: SpecPpm.                       *)

\* the largest width of a canvas
MaxWidth == 23

\* the largest height of a canvas
MaxHeight == 2

\* the colours of the first row: the first pixels of a row have one colour
\* and the others another
RowColors ==
    {<<Color_new(0, 0, FP(1)), White>>,
     <<Color_new(0, 0, FP(1)), Color_new(FP(1), FP(1), Scale \div 5)>>,
     <<Color_new(-Scale \div 2, FP(2), Scale \div 2), White>>}

\* the canvas after write_pixel(x, 0, colors[1]) for x < first and
\* write_pixel(x, 0, colors[2]) for the other x
row_written(canvas, first, colors) ==
    IF canvas.height = 0 THEN canvas
    ELSE [canvas EXCEPT !.grid[1] =
            [c \in 1..canvas.width |-> IF c <= first THEN colors[1] ELSE colors[2]]]

InitPpm ==
    /\ \E width \in 0..MaxWidth, height \in 0..MaxHeight, colors \in RowColors :
        \E first \in 0..width :
            image = row_written(Canvas_new(width, height), first, colors)
    /\ written = Unused /\ camera = Unused /\ pc = "idle" /\ px = 0 /\ py = 0
    /\ world = Unused /\ ray = Unused /\ point = Unused /\ vector = Unused
    /\ scalar = Unused /\ inters = Unused
    /\ shading_idle /\ matrix_idle
    /\ op = "init" /\ result = Unused

\* result = image.to_ppm()
ToPpm ==
    /\ op = "init"
    /\ op' = "to_ppm" /\ result' = to_ppm(image)
    /\ UNCHANGED operands

NextPpm == ToPpm

SpecPpm == InitPpm /\ [][NextPpm]_vars

---------------------------------------------------------------------------
(* hit and color_at on intersections that share their t: SpecTies.           *)

\* lists of intersections of two shapes at -1.0, 1.0 and 2.0
TieLists ==
    SeqsUpTo({Intersection_new(t, s) : t \in {-FP(1), FP(1), FP(2)},
                                       s \in {OuterSphere, Sphere_default}},
             MaxInters)

\* worlds of the outer sphere, a default sphere in the same place and the
\* inner sphere
TieWorlds ==
    {World_new(objs, PointLight_new(Point_new(0, 0, -FP(5)), White)) :
        objs \in SeqsUpTo({OuterSphere, Sphere_default, InnerSphere}, MaxObjects)}

\* either a list for hit, or a world and a ray for color_at
InitTies ==
    /\ \/ /\ inters \in TieLists
          /\ world = World_new(<<>>, PointLight_new(Point_new(0, 0, -FP(5)), White))
          /\ ray = Ray_new(Point_new(0, 0, -FP(5)), PlusZ)
       \/ /\ inters = <<>>
          /\ world \in TieWorlds
          /\ ray \in Rays
    /\ point = Unused /\ vector = Unused /\ scalar = Unused
    /\ render_idle /\ shading_idle /\ matrix_idle
    /\ op = "init" /\ result = Unused

NextTies == Hit \/ ColorAt

SpecTies == InitTies /\ [][NextTies]_vars

---------------------------------------------------------------------------
(* Properties of Camera::render (under SpecRender).                        *)

\* C1: after render returns, every coordinate (x, y) with 0 <= x < hsize and
\* 0 <= y < vsize has been written exactly once: none skipped, none twice.
C1_EveryPixelWrittenOnce ==
    pc = "done" =>
        \A x \in 0..(camera.hsize - 1), y \in 0..(camera.vsize - 1) :
            written[<<x, y>>] = 1

---------------------------------------------------------------------------
(* Properties of Point and Vector arithmetic (under SpecAlgebra).          *)

\* C2: Point + Vector adds every component, so that (P + V) - V equals P and
\* (P + V) - P equals V.
C2_AddSubRoundTrip ==
    /\ op = "add" =>
          result = Point_new(point.x + vector.x, point.y + vector.y, point.z + vector.z)
    /\ op = "add_sub_vector" => point_eq(result, point)
    /\ op = "add_sub_point" => vector_eq(result, vector)

\* C3: position(t) equals origin + direction * t in each of the three
\* components.
C3_PositionIsOriginPlusDirectionT ==
    op = "position" =>
        /\ fp_equal(result.x, point.x + fmul(vector.x, scalar))
        /\ fp_equal(result.y, point.y + fmul(vector.y, scalar))
        /\ fp_equal(result.z, point.z + fmul(vector.z, scalar))

---------------------------------------------------------------------------
(* Properties of hit (under SpecHit).                                      *)

\* the indices of the list whose t lies strictly between lo and hi
IndicesBetween(lo, hi) == {i \in 1..Len(inters) : lo < inters[i].t /\ inters[i].t < hi}

\* result is an element of the list at one of the indices I, with the
\* smallest t of I; None when I is empty
ResultIsSmallestOf(I) ==
    IF I = {} THEN result = None
    ELSE /\ result.some
         /\ \E i \in I : /\ result.value = inters[i]
                         /\ \A j \in I : inters[i].t <= inters[j].t

\* C4 as stated: hit returns the intersection with the smallest non-negative
\* t of the list, whatever the order of the list, and None when the list is
\* empty or every t is negative.
C4_HitSmallestNonNegative ==
    op = "hit" => ResultIsSmallestOf(IndicesBetween(-1, F32_MAX + 1))

\* C4 as amended: hit returns an intersection with the smallest t among those
\* of the list with 0 < t < f32::MAX, whatever the order of the list, and
\* None when the list holds no such intersection.
C4_HitSmallestPositive ==
    op = "hit" => ResultIsSmallestOf(IndicesBetween(0, F32_MAX))

\* hit chose among several positive t of a list that is not sorted and that
\* also holds a t that is not positive
C4_Witness ==
    /\ op = "hit"
    /\ result.some
    /\ Len(inters) = 3
    /\ inters[1].t > inters[3].t
    /\ inters[3].t > 0
    /\ inters[2].t <= 0

\* C5: hit ignores every intersection with t <= 0: such an intersection is
\* never the returned hit, and a list holding only such intersections yields
\* None.
C5_HitIgnoresNonPositive ==
    op = "hit" =>
        /\ result.some => result.value.t > 0
        /\ (\A i \in 1..Len(inters) : inters[i].t <= 0) => result = None

\* hit returned None for a list that holds an intersection at t = 0
C5_Witness ==
    /\ op = "hit"
    /\ result = None
    /\ \E i \in 1..Len(inters) : inters[i].t = 0

---------------------------------------------------------------------------
(* Properties of the world operations (under Spec).                        *)

RECURSIVE RootsOf(_, _)
\* the intersections of r with each of the shapes, one sequence per shape
RootsOf(objects, r) ==
    IF objects = <<>> THEN <<>>
    ELSE <<intersect(r, Head(objects))>> \o RootsOf(Tail(objects), r)

\* the (shape, root) places of the intersections held by xs
Places(xs) == {pl \in (1..Len(xs)) \X (1..2) : pl[2] <= Len(xs[pl[1]])}

\* the intersection at a place
At(xs, pl) == xs[pl[1]][pl[2]]

\* the places in front of the ray
Front(xs) == {pl \in Places(xs) : At(xs, pl).t > 0}

\* C6: color_at returns black when no shape is hit in front of the ray, in
\* particular for a world with no shapes; when a hit exists it returns
\* shade_hit of the precomputed state of a nearest intersection in front.
C6_ColorAtBlackOnMiss ==
    op = "color_at" =>
        \E xs \in {RootsOf(world.objects, ray)} :
            IF Front(xs) = {} THEN result = Black
            ELSE \E pl \in Front(xs) :
                    /\ \A other \in Front(xs) : At(xs, pl).t <= At(xs, other).t
                    /\ result = shade_hit(world, precompute(At(xs, pl), ray))

\* color_at returned black for a ray whose only intersections are behind it
C6_Witness ==
    /\ op = "color_at"
    /\ \E xs \in {RootsOf(world.objects, ray)} : Places(xs) # {} /\ Front(xs) = {}
    /\ result = Black

\* C7: intersect_world returns the intersections of the ray with every shape,
\* none dropped or added, sorted ascending by t.
C7_IntersectWorldSorted ==
    op = "intersect_world" =>
        \E xs \in {RootsOf(world.objects, ray)} :
            /\ Len(result) = Cardinality(Places(xs))
            /\ \A pl \in Places(xs) :
                  Cardinality({k \in 1..Len(result) : result[k] = At(xs, pl)})
                    = Cardinality({q \in Places(xs) : At(xs, q) = At(xs, pl)})
            /\ \A k \in 1..(Len(result) - 1) : result[k].t <= result[k + 1].t

\* intersect_world merged the roots of two shapes that were not in order
C7_Witness ==
    /\ op = "intersect_world"
    /\ Len(result) = 4
    /\ \E xs \in {RootsOf(world.objects, ray)} : At(xs, <<1, 2>>).t > At(xs, <<2, 1>>).t

\* |D|^2 - |D x O|^2 for the ray in the object space of s: negative when the
\* line passes the unit sphere, zero when it touches it
Clearance(r, s) ==
    LET r2 == ray_transform(r, inverse(s.matrix))
        o  == point_sub(r2.origin, Point_new(0, 0, 0))
        dxo == cross(r2.direction, o)
    IN  dot(r2.direction, r2.direction) - dot(dxo, dxo)

\* C8: intersect returns an empty sequence on a miss, otherwise exactly two
\* intersections, both with the sphere passed in; a tangent ray yields two
\* intersections with equal t.
C8_IntersectZeroOrTwo ==
    op = "intersect" =>
        \E clearance \in {Clearance(ray, result.object)} :
            /\ Len(result.xs) \in {0, 2}
            /\ Len(result.xs) = 0 <=> clearance < 0
            /\ \A k \in 1..Len(result.xs) : result.xs[k].object = result.object
            /\ clearance = 0 => Len(result.xs) = 2 /\ result.xs[1].t = result.xs[2].t

\* a tangent ray was intersected with a sphere
C8_Witness ==
    /\ op = "intersect"
    /\ Clearance(ray, result.object) = 0
    /\ Len(result.xs) = 2

\* the ray is_shadowed casts from p toward the light
ShadowRay(w, p) == Ray_new(p, normalize(point_sub(w.light.position, p)))

\* the distance from p to the light
LightDistance(w, p) == magnitude(point_sub(w.light.position, p))

\* C9: is_shadowed(point) is true exactly when a shape is met in front of the
\* point on the way to the light, strictly nearer than the light.
C9_ShadowedIffHitBeforeLight ==
    op = "is_shadowed" =>
        \E xs \in {RootsOf(world.objects, ShadowRay(world, point))} :
            result = (\E pl \in Front(xs) : At(xs, pl).t < LightDistance(world, point))

\* is_shadowed answered false although a shape lies on the line, beyond the
\* light
C9_Witness ==
    /\ op = "is_shadowed"
    /\ result = FALSE
    /\ \E xs \in {RootsOf(world.objects, ShadowRay(world, point))} :
          \E pl \in Front(xs) : At(xs, pl).t > LightDistance(world, point)

\* material.color * light.intensity * material.ambient
AmbientTerm(light, mat) == color_scale(color_mul(mat.color, light.intensity), mat.ambient)

\* C10: when in_shadow is true lighting returns only the ambient term: the
\* diffuse and specular contributions are black whatever the eye, normal and
\* light positions are.
C10_ShadowGivesAmbientOnly ==
    (op = "shade_hit" /\ is_shadowed(world, result.comps.over_point)) =>
        result.color = AmbientTerm(world.light, result.comps.inter.object.material)

---------------------------------------------------------------------------
(* Properties of PointLight::lighting (under SpecLighting).                *)

\* the unit vector from pos to the light
LightV(l, pos) == normalize(point_sub(l.position, pos))

\* lightv . normal
LightDotNormal(l, pos, n) == dot(LightV(l, pos), n)

\* reflectv . eye
ReflectDotEye(l, pos, eye, n) == dot(reflect(vector_neg(LightV(l, pos)), n), eye)

\* effective_color * diffuse * (lightv . normal)
DiffuseTerm(l, mat, pos, n) ==
    color_scale(color_scale(color_mul(mat.color, l.intensity), mat.diffuse),
                LightDotNormal(l, pos, n))

\* C11: the cutoffs of lighting are <= 0: when lightv . normal <= 0, a
\* grazing light at exactly 0 included, the result is the ambient term alone;
\* when reflectv . eye <= 0 the specular term is black.
C11_CutoffsAtZero ==
    op = "lighting" =>
        /\ LightDotNormal(lamp, point, surface_normal) <= 0 =>
              result = AmbientTerm(lamp, surface)
        /\ (/\ LightDotNormal(lamp, point, surface_normal) > 0
            /\ ReflectDotEye(lamp, point, vector, surface_normal) <= 0) =>
              result = color_add(AmbientTerm(lamp, surface),
                                 DiffuseTerm(lamp, surface, point, surface_normal))

---------------------------------------------------------------------------
(* Properties of WorldIntersection::precompute and World::shade_hit        *)
(* (under Spec).                                                           *)

C13_OverPointAlongStoredNormal ==
    op = "precompute" =>
        /\ result.over_point.x = result.point.x + fmul(result.normal.x, OverPointBias)
        /\ result.over_point.y = result.point.y + fmul(result.normal.y, OverPointBias)
        /\ result.over_point.z = result.point.z + fmul(result.normal.z, OverPointBias)

\* lighting as shade_hit is to call it, with the in_shadow flag
LightingWithShadow(l, mat, pos, eye, n, in_shadow) ==
    IF in_shadow THEN AmbientTerm(l, mat) ELSE lighting(l, mat, pos, eye, n)

\* C14: shade_hit(comps) returns lighting evaluated with the material of the
\* hit shape, the point, eye and normal of comps, and with in_shadow =
\* is_shadowed(comps.over_point).
C14_ShadeHitShadowAtOverPoint ==
    op = "shade_hit" =>
        result.color =
            LightingWithShadow(world.light, result.comps.inter.object.material,
                               result.comps.point, result.comps.eye,
                               result.comps.normal,
                               is_shadowed(world, result.comps.over_point))

---------------------------------------------------------------------------
(* Properties of the matrix operations (under SpecMatrix).                 *)

\* the determinant is within the epsilon of fp_equal of zero
NearSingular(m) == fp_equal(determinant(m), 0)

\* C15: inverse fails, returning no matrix, for every matrix whose
\* determinant is within epsilon of zero, and so do Ray::intersect and
\* Sphere::normal_at for a sphere that carries such a transform.
C15_SingularTransformFails ==
    (/\ op \in {"inverse", "intersect_transformed", "normal_at"}
     /\ NearSingular(matrices[1])) => result = Panic

\* intersect failed for a sphere scaled by zero
C15_Witness ==
    /\ op = "intersect_transformed"
    /\ matrices[1] = scaling(0, 0, 0)
    /\ result = Panic

Affine(m) == /\ get(m, 3, 0) = 0 /\ get(m, 3, 1) = 0 /\ get(m, 3, 2) = 0
             /\ get(m, 3, 3) = FP(1)

\* the point transformed by A, then by B, then by C
OneByOne == matrix_mul_point(matrices[3],
                matrix_mul_point(matrices[2], matrix_mul_point(matrices[1], point)))

\* C17 as stated: for all 4x4 matrices A, B, C and every point p,
\* (C * B * A) * p equals C * (B * (A * p)).
C17_ChainedEqualsOneByOne ==
    op = "chained" => point_eq(result, OneByOne)

\* C17 as amended: for all 4x4 matrices A and B with last row (0, 0, 0, 1),
\* every 4x4 matrix C and every point p, (C * B * A) * p equals
\* C * (B * (A * p)).
C17_AffineChainedEqualsOneByOne ==
    (op = "chained" /\ Affine(matrices[1]) /\ Affine(matrices[2])) =>
        point_eq(result, OneByOne)

\* a scaling, then a translation, were applied to a point as one product
C17_Witness ==
    /\ op = "chained"
    /\ matrices[1] = scaling(FP(2), FP(4), Scale \div 2)
    /\ matrices[2] = translation(FP(1), FP(2), FP(3))
    /\ matrices[3] = shearing(FP(1), 0, 0, 0, FP(2), 0)
    /\ point = Point_new(FP(1), FP(2), FP(3))
    /\ result = OneByOne

\* transpose(inverse(T)) * (inverse(T) * p - origin)
WorldNormal(t, p) ==
    matrix_mul_vector(transpose(inverse(t)),
                      point_sub(matrix_mul_point(inverse(t), p), Point_new(0, 0, 0)))

\* v has length 1: x^2 + y^2 + z^2 is 1 up to the rounding of the magnitude
\* and of the three quotients to the last digit the arithmetic carries
UnitLength(v) ==
    /\ v # NaNVector
    /\ Abs(v.x * v.x + v.y * v.y + v.z * v.z - Scale * Scale) <= 4 * Scale

\* C18 as stated: for every sphere with invertible transform T and every
\* world point p, normal_at(p) equals normalize(transpose(inverse(T)) *
\* (inverse(T) * p - origin)) and has unit length.
C18_NormalByInverseTranspose ==
    (op = "normal_at" /\ invertible(matrices[1])) =>
        /\ result = normalize(WorldNormal(matrices[1], point))
        /\ UnitLength(result)

\* C18 as amended: the same for every world point p at which
\* transpose(inverse(T)) * (inverse(T) * p - origin) is not the zero vector.
C18_NormalByInverseTransposeOffCentre ==
    (/\ op = "normal_at" /\ invertible(matrices[1])
     /\ WorldNormal(matrices[1], point) # Vector_new(0, 0, 0)) =>
        /\ result = normalize(WorldNormal(matrices[1], point))
        /\ UnitLength(result)

\* the normal of a sheared sphere was taken at a point off its axes
C18_Witness ==
    /\ op = "normal_at"
    /\ matrices[1] = shearing(FP(1), 0, 0, 0, FP(2), 0)
    /\ point = Point_new(FP(1), FP(2), FP(3))
    /\ UnitLength(result)

---------------------------------------------------------------------------
(* Properties of rendering in any order (under SpecAnyOrder).              *)

\* C19: the canvas obtained after rendering the pixels in any order, hence
\* by workers rendering disjoint rows in any interleaving, is the canvas of
\* the sequential row-by-row render, and rendering changes neither the world
\* nor the camera.
C19_AnyOrderSameCanvas ==
    /\ [](pc = "done" => result = render(camera, world))
    /\ [][world' = world /\ camera' = camera]_vars

\* a canvas with a lit pixel next to a black one was rendered
C19_Witness ==
    /\ pc = "done"
    /\ camera.hsize = 3 /\ camera.vsize = 3
    /\ pixel_at(result, 1, 1) # Black
    /\ pixel_at(result, 0, 1) = Black

---------------------------------------------------------------------------
(* Properties of the setters of Material (under SpecMaterial).             *)

\* the fields of a Material
MaterialFields == {"color", "ambient", "diffuse", "specular", "shininess"}

\* the step is a call of the setter of field f with the value result'
SetsOnly(f) ==
    /\ surface'[f] = result'
    /\ \A g \in MaterialFields \ {f} : surface'[g] = surface[g]
    /\ surface_copy' = surface_copy

\* C20: every setter set_X returns a Material whose field X is the new value
\* and whose four other fields equal those of the receiver; a clone taken
\* before the call keeps its value.
C20_SetterChangesOneField ==
    [][/\ op' = "set_color" => SetsOnly("color")
       /\ op' = "set_ambient" => SetsOnly("ambient")
       /\ op' = "set_diffuse" => SetsOnly("diffuse")
       /\ op' = "set_specular" => SetsOnly("specular")
       /\ op' = "set_shininess" => SetsOnly("shininess")]_vars

\* the ambient of a default material was set to 1.0 and its clone kept 0.1
C20_Witness ==
    /\ op = "set_ambient"
    /\ surface = [Material_default EXCEPT !.ambient = FP(1)]
    /\ surface_copy = Material_default

---------------------------------------------------------------------------
(* Properties of Camera::set_transform (under SpecCamera).                   *)

\* the fields of a Camera that are not its transform
CameraConstants ==
    {"hsize", "vsize", "field_of_view", "pixel_size", "half_width", "half_height"}

\* C21: set_transform changes only the transform: hsize, vsize, field_of_view
\* and the derived pixel_size, half_width and half_height keep the values
\* computed by Camera::new, after any sequence of set_transform calls.
C21_SetTransformKeepsConstants ==
    /\ [](\A f \in CameraConstants :
            camera[f] = Camera_new(camera.hsize, camera.vsize, FRAC_PI_2)[f])
    /\ [][/\ \A f \in CameraConstants : camera'[f] = camera[f]
          /\ camera'.transform = result']_vars

\* a 3x2 camera after two set_transform calls, the last with a scaling
C21_Witness ==
    /\ op = "set_transform" /\ scalar = 2
    /\ camera.hsize = 3 /\ camera.vsize = 2
    /\ camera.transform = scaling(FP(2), FP(4), Scale \div 2)
    /\ camera.half_width = FP(1) /\ camera.pixel_size = RoundDiv(2 * Scale, 3)

---------------------------------------------------------------------------
(* Properties of the equalities (under SpecEquality).                        *)

\* |a - b| < 1e-5 for numbers in units of 1 / Fine
WithinTolerance(a, b) == Abs(a - b) < Fine \div (10 * 10 * 10 * 10 * 10)

\* the floating-point fields a value of the type is compared by
FloatsOf(kind, v) ==
    CASE kind = "Color" -> <<v.red, v.green, v.blue>>
      [] kind \in {"Vector", "Point"} -> <<v.x, v.y, v.z>>
      [] kind = "Matrix" -> v.grid
      [] kind = "Intersection" -> <<v.t>>
      [] kind = "Material" ->
            <<v.color.red, v.color.green, v.color.blue,
              v.ambient, v.diffuse, v.specular, v.shininess>>
      [] kind = "Sphere" ->
            v.matrix.grid \o
            <<v.material.color.red, v.material.color.green, v.material.color.blue,
              v.material.ambient, v.material.diffuse, v.material.specular,
              v.material.shininess>>

\* C22: every equality that compares floating-point fields (Color, Vector,
\* Point, Matrix, Intersection t, Material and the Sphere equality relying on
\* it) holds exactly when every pair of fields differs by less than 1e-5; no
\* equality compares floats exactly.
C22_EveryEqualityWithinTolerance ==
    op = "eq" =>
        result = (\A k \in 1..Len(FloatsOf(scalar, surface)) :
                    WithinTolerance(FloatsOf(scalar, surface)[k],
                                    FloatsOf(scalar, surface_copy)[k]))

---------------------------------------------------------------------------
(* Properties of the matrix operations on unsupported shapes (SpecShapes).   *)

Square(m) == m.row = m.col

FourByFour(m) == m.row = 4 /\ m.col = 4

\* C23: a matrix operation applied to operands of unsupported shape never
\* returns a value: determinant, minor and cofactor of a non-square matrix,
\* and multiplication or transpose of a matrix that is not 4x4, all abort.
C23_UnsupportedShapeAborts ==
    /\ op \in {"determinant", "minor", "cofactor"} /\ ~Square(matrices[1])
        => panicked(result)
    /\ op = "mul" /\ ~(FourByFour(matrices[1]) /\ FourByFour(matrices[2]))
        => panicked(result)
    /\ op = "transpose" /\ ~FourByFour(matrices[1]) => panicked(result)

---------------------------------------------------------------------------
(* Properties of Canvas::write_pixel and pixel_at (under SpecCanvas).        *)

\* the indices of the calls of the list that wrote (x, y)
WritesTo(calls, x, y) == {k \in 1..Len(calls) : calls[k].x = x /\ calls[k].y = y}

\* the colour of the last call that wrote (x, y), black if there is none
LastWritten(calls, x, y) ==
    IF WritesTo(calls, x, y) = {} THEN Color_new(0, 0, 0)
    ELSE calls[CHOOSE k \in WritesTo(calls, x, y) :
                   \A j \in WritesTo(calls, x, y) : j <= k].color

\* C24: after any sequence of write_pixel calls, pixel_at(x, y) returns the
\* colour of the last write_pixel(x, y, c) to that coordinate, or black if it
\* was never written; write_pixel(x, y, c) leaves every other pixel, the width
\* and the height unchanged.
C24_PixelAtReturnsLastWrite ==
    /\ [](op = "pixel_at" => result = LastWritten(written, px, py))
    /\ [][op' = "write_pixel" =>
            /\ image'.width = image.width /\ image'.height = image.height
            /\ Len(image'.grid) = image.height
            /\ \A y \in 0..(image.height - 1) :
                /\ Len(image'.grid[y + 1]) = image.width
                /\ \A x \in 0..(image.width - 1) :
                     pixel_at(image', x, y) =
                        IF x = written'[Len(written')].x /\ y = written'[Len(written')].y
                        THEN written'[Len(written')].color
                        ELSE pixel_at(image, x, y)]_vars

\* (1, 2) of a 2x3 canvas was written twice and is read back as the second
\* colour, after another pixel was written as well
C24_Witness ==
    /\ op = "pixel_at" /\ px = 1 /\ py = 2
    /\ image.width = 2 /\ image.height = 3
    /\ Len(written) = 3
    /\ Cardinality(WritesTo(written, 1, 2)) = 2
    /\ written[1].x = 1 /\ written[1].y = 2 /\ written[1].color # written[3].color
    /\ written[3].x = 1 /\ written[3].y = 2
    /\ result = written[3].color

---------------------------------------------------------------------------
(* Properties of Canvas::to_ppm (under SpecPpm).                             *)

\* C30: to_ppm completes without panicking for every canvas and every pixel
\* content: each 71-character window searched while splitting a long row
\* lies within the row string and contains a space, and the output always
\* ends with a newline.
C30_ToPpmNeverPanics ==
    op = "to_ppm" =>
        /\ ~panicked(result)
        /\ result[Len(result)] = "\n"

\* the positions of the line feeds of a text
LineEnds(text) == {k \in 1..Len(text) : text[k] = "\n"}

\* the position before the first character of the line that ends at k
LineStart(text, k) ==
    IF \E j \in LineEnds(text) : j < k
    THEN CHOOSE j \in LineEnds(text) : j < k /\ \A i \in LineEnds(text) : i < k => i <= j
    ELSE 0

\* the lines of the pixel data: every line but the three of the header
PixelLines(text) ==
    {SubSeq(text, LineStart(text, k) + 1, k - 1) :
        k \in {e \in LineEnds(text) : Cardinality({j \in LineEnds(text) : j < e}) >= 3}}

IsDigit(c) == \E d \in 1..10 : Digits[d] = c

\* the positions at which a number starts
NumberStarts(text) ==
    {k \in 1..Len(text) : IsDigit(text[k]) /\ (k = 1 \/ ~IsDigit(text[k - 1]))}

\* a line of whole numbers separated by single spaces
WholeValues(line) ==
    \/ line = <<>>
    \/ /\ IsDigit(line[1]) /\ IsDigit(line[Len(line)])
       /\ \A k \in 1..Len(line) : IsDigit(line[k]) \/ line[k] = " "
       /\ \A k \in 1..(Len(line) - 1) : ~(line[k] = " " /\ line[k + 1] = " ")

\* the number of channel values of the canvas
Channels(canvas) == 3 * canvas.width * canvas.height

\* C25: to_ppm splits long rows so that no line of the pixel data is longer
\* than 70 characters, for every canvas width and every pixel content, and a
\* split never falls inside a number: each line holds whole channel values
\* separated by single spaces.
C25_LinesAtMostSeventy ==
    (op = "to_ppm" /\ ~panicked(result)) =>
        /\ \A line \in PixelLines(result) : Len(line) <= 70 /\ WholeValues(line)
        /\ Cardinality(NumberStarts(result)) = 4 + Channels(image)

RECURSIVE NumberFrom(_, _, _)
\* the number whose digits start at position k, acc being the value so far
NumberFrom(text, k, acc) ==
    IF k > Len(text) \/ ~IsDigit(text[k]) THEN acc
    ELSE NumberFrom(text, k + 1,
                    acc * 10 + (CHOOSE d \in 0..9 : Digits[d + 1] = text[k]))

\* round(255 * c) clamped to 0..255
ClampedRound(c) ==
    IF RoundDiv(255 * c, Scale) < 0 THEN 0
    ELSE IF RoundDiv(255 * c, Scale) > 255 THEN 255
    ELSE RoundDiv(255 * c, Scale)

\* the i-th channel of the canvas in the order of the pixel data, from 0
ChannelOf(canvas, i) ==
    LET pixel == canvas.grid[((i \div 3) \div canvas.width) + 1][((i \div 3) % canvas.width) + 1]
    IN  IF i % 3 = 0 THEN pixel.red ELSE IF i % 3 = 1 THEN pixel.green ELSE pixel.blue

\* C26: to_ppm emits every channel as an integer in 0..255 equal to
\* round(255 * c) clamped to that range: components below 0 are written as 0
\* and components above 1 as 255, while the colours stored in the canvas stay
\* unclamped.
C26_ChannelsClampedAndRounded ==
    /\ []((op = "to_ppm" /\ ~panicked(result)) =>
            \A k \in NumberStarts(result) :
                \E i \in {Cardinality({j \in NumberStarts(result) : j < k})} :
                    /\ i < 4 + Channels(image)
                    /\ i >= 4 => NumberFrom(result, k, 0)
                                    = ClampedRound(ChannelOf(image, i - 4)))
    /\ [][op' = "to_ppm" => image' = image]_vars

\* a one-pixel canvas holding (-0.5, 2.0, 0.5) is written as 0 255 128 and
\* still holds (-0.5, 2.0, 0.5)
C26_Witness ==
    /\ op = "to_ppm"
    /\ image.width = 1 /\ image.height = 1
    /\ pixel_at(image, 0, 0) = Color_new(-Scale \div 2, FP(2), Scale \div 2)
    /\ result = <<"P", "3", "\n", "1", " ", "1", "\n", "2", "5", "5", "\n",
                  "0", " ", "2", "5", "5", " ", "1", "2", "8", "\n">>

\* whether (row, col) names a cell of the matrix
InRange(m, row, col) == row < m.row /\ col < m.col

\* C28: get(row, col) and set(row, col, v) reject every out-of-range index:
\* for row >= number of rows or col >= number of columns they panic, and
\* never read or write a cell belonging to another (row, col) position.
C28_OutOfRangeIndexPanics ==
    (op \in {"get", "set"} /\ ~InRange(matrices[1], scalar[1], scalar[2]))
        => panicked(result)

---------------------------------------------------------------------------
(* Properties of hit and color_at on ties (under SpecTies).                  *)

\* every ordering of a list
Reordered(list) ==
    {[i \in 1..Len(list) |-> list[f[i]]] : f \in Permutations(1..Len(list))}

\* the first intersection of the list whose t is that of the hit h
FirstAt(list, h) ==
    list[CHOOSE k \in 1..Len(list) :
            /\ list[k].t = h.value.t
            /\ \A j \in 1..(k - 1) : list[j].t # h.value.t]

\* every intersection of the list whose t is that of the hit h refers to the
\* shape of h
TiedAlike(list, h) ==
    h.some => \A k \in 1..Len(list) : list[k].t = h.value.t => list[k] = h.value

\* two hits that are both None or have the same t
SameT(a, b) == a.some = b.some /\ (a.some => a.value.t = b.value.t)

\* what the hit h of a list has to do with the hit g of a reordering of it
FirstOfTies(list, h, g) ==
    /\ SameT(g, h)
    /\ h.some => h.value = FirstAt(list, h)
    /\ TiedAlike(list, h) => g = h

\* the intersections of the shapes with the ray in the order of the shapes
Unsorted(w, r) == flat_map_intersect(w.objects, r)

\* C27 (as the code has it): when several intersections share the smallest
\* positive t, hit returns the first of them in list order, which in a world
\* is the one of the earliest shape; the t of the hit is the same for every
\* ordering of the list and of the shapes, and the shape and the colour of
\* color_at are the same for every ordering when the intersections sharing
\* that t refer to the same shape.
C27_TieKeepsFirst ==
    /\ op = "hit" =>
        \A q \in Reordered(inters) : FirstOfTies(inters, result, hit(q))
    /\ op = "color_at" =>
        \A q \in Reordered(world.objects) :
            \E w \in {[world EXCEPT !.objects = q]} :
            \E h \in {hit(intersect_world(world, ray))} :
                /\ FirstOfTies(Unsorted(world, ray), h, hit(intersect_world(w, ray)))
                /\ TiedAlike(Unsorted(world, ray), h) => color_at(w, ray) = result

\* C27: when several intersections share the smallest positive t, the
\* returned hit (its t and the shape it refers to), and hence the colour
\* color_at computes from it, is the same for every ordering of the
\* intersection list and of the shapes in the world.
C27_TieBreakIrrelevant ==
    /\ op = "hit" => \A q \in Reordered(inters) : hit(q) = result
    /\ op = "color_at" =>
        \A q \in Reordered(world.objects) :
            \E w \in {[world EXCEPT !.objects = q]} :
                /\ hit(intersect_world(w, ray)) = hit(intersect_world(world, ray))
                /\ color_at(w, ray) = result

\* the outer sphere and a default sphere in the same place are both hit at
\* t = 4; the colour is that of the outer sphere, which comes first, and the
\* world with the two exchanged has another colour
C27_Witness ==
    /\ op = "color_at"
    /\ world.objects = <<OuterSphere, Sphere_default>>
    /\ ray = Ray_new(Point_new(0, 0, -FP(5)), PlusZ)
    /\ hit(intersect_world(world, ray)) = Some(Intersection_new(FP(4), OuterSphere))
    /\ Len(SelectSeq(intersect_world(world, ray), LAMBDA x : x.t = FP(4))) = 2
    /\ result = color_at([world EXCEPT !.objects = <<OuterSphere>>], ray)
    /\ result # color_at([world EXCEPT !.objects = <<Sphere_default, OuterSphere>>], ray)

---------------------------------------------------------------------------
(* Properties of Camera::render on cameras of every size (SpecRenderSizes).  *)

\* C29: render terminates and returns an hsize x vsize canvas for every
\* camera size, including hsize = 0 or vsize = 0: the unsigned 32-bit loop
\* bounds never underflow or wrap, and no write_pixel is issued outside the
\* canvas.
C29_RenderEverySize ==
    /\ pc # "panic"
    /\ pc \in {"rows", "columns"} => px <= camera.hsize /\ py <= camera.vsize
    /\ pc = "done" =>
        /\ result.width = camera.hsize /\ result.height = camera.vsize
        /\ Len(result.grid) = camera.vsize
        /\ \A y \in 1..camera.vsize : Len(result.grid[y]) = camera.hsize

===========================================================================
